---- MODULE Spec2Model ----
(***************************************************************************)
(* SpeedCrawlPro: the crawl orchestration core.                            *)
(*                                                                         *)
(* Spec    the crawl: PageProcessor.crawlPages / _processPage running on   *)
(*         a p-queue of concurrency `threads`, with QueueManager.visited,  *)
(*         ResultManager.allPages and StateManager.saveState.              *)
(* FairSpec  Spec with the event loop's progress (every awaited operation  *)
(*         settles, every queued job is started when a slot is free).      *)
(* SpecQM  the QueueManager API (add, getNext, addVisited, addFailed)      *)
(*         driven with arbitrary arguments.                                *)
(*                                                                         *)
(* JavaScript runs one turn at a time: an action is everything a task does *)
(* between two awaits, including the jobs p-queue starts synchronously in  *)
(* that turn and the microtasks that follow it.                            *)
(***************************************************************************)
EXTENDS Integers, Sequences, FiniteSets, Bags, TLC

\* ---- bounds of the model -------------------------------------------------
MaxThreads == 2
MaxPagesBound == 2
MaxDepthBound == 1
MaxLinks == 1
MaxForms == 2
MaxRequests == 3

\* ---- the universe of inputs ---------------------------------------------
Seed == "s"
URLs == {"s", "a"}

VARIABLES
  threads, maxPages, maxDepth, autoResume,  \* the configuration read by crawlPages
  crawlPc,      \* crawlPages: "start" -> "awaitIdle" -> "returned"
  pqueue,       \* p-queue: the jobs added and not yet started (queue.size = Len)
  tasks,        \* p-queue: the bag of jobs in flight (pending = its size)
  visited,      \* QueueManager.visited
  enqueued,     \* QueueManager.enqueued
  queue,        \* QueueManager.queue
  failed,       \* QueueManager.failed
  allPages,     \* ResultManager.allPages
  stateFile,    \* the snapshot file written by StateManager.saveState
  navigated,    \* history: the URLs page.goto has been called with
  ended,        \* history: the URLs of the page tasks that have ended
  ret,          \* SpecQM: the last method called and what it returned
  formDom,      \* SpecForms: the forms in the DOM of each page
  formTask,     \* SpecForms: where processForm stands on each page
  submittedForms, \* PageProcessor.submittedForms, the keys method:action:sig
  fills,        \* SpecForms history: the (page, key) fillAndSubmitForm was called with
  reports,      \* SpecForms history: what fillAndSubmitForm returned, and whether it clicked
  sameOrigin, includeSubdomains,  \* configuration of the scope filter
  requests,     \* NetworkCapture.requests, in the order of their ids
  allRequests,  \* ResultManager.allRequests
  requestCounter, \* NetworkCapture.requestCounter
  responses,    \* NetworkCapture.responses: request id -> status
  awaiting,     \* the browser's requests that have no response yet
  sent,         \* the number of requests the browser has sent
  scopeQueue,   \* SpecScope: the links the enqueue loop let through
  rejected,     \* SpecScope history: the links the scope filter dropped
  enginePc,     \* CrawlEngine.start: "init" -> "context" -> "crawling" -> "returned" / "failed"
  snap,         \* SpecEngine: the snapshot file as start() found it
  accepted,     \* SpecEngine: loadState returned true
  diskFails,    \* SpecPersist: reads, writes and unlinks of the state file throw
  pairs,        \* NetworkCapture.pairs
  outPc,        \* SpecExport: "capturing" -> "generated" -> "flushed"
  exported,     \* SpecExport: the entries of requests.jsonl
  httpRaw,      \* SpecExport: the request written to http.raw, if any
  pageTask,     \* SpecPage: one page task, its stage and the locals of its loops
  pageDom,      \* SpecPage: the page and the configuration the task reads
  stopRequested, \* SpecStop: the caller has asked for the crawl to stop
  listPos,      \* runCrawl: the position in the list of the URL being crawled
  completed,    \* StateManager.state.completed
  call          \* a method studied by itself: its arguments and what it returned

formVars == <<formDom, formTask, submittedForms, fills, reports>>
netVars == <<sameOrigin, includeSubdomains, requests, allRequests, requestCounter,
             responses, awaiting, sent, scopeQueue, rejected>>
outVars == <<pairs, outPc, exported, httpRaw>>

\* The variables of the other specifications, left alone by the crawl.
engineVars == <<enginePc, snap, accepted, diskFails, listPos, completed>>
pageVars == <<pageTask, pageDom>>
stopVars == <<stopRequested>>
fnVars == <<call>>
extVars == <<formVars, netVars, engineVars, outVars, pageVars, stopVars, fnVars>>

vars == <<threads, maxPages, maxDepth, autoResume, crawlPc, pqueue, tasks,
          visited, enqueued, queue, failed, allPages, stateFile, navigated,
          ended, ret, extVars>>

cfgVars == <<threads, maxPages, maxDepth, autoResume>>
histVars == <<navigated, ended>>
qmVars == <<enqueued, queue, failed, ret>>

NoFile == [exists |-> FALSE, readable |-> FALSE, url |-> "", visited |-> {},
           queue |-> <<>>, pages |-> <<>>, completed |-> FALSE]
NullItem == [url |-> "", depth |-> 0, referer |-> ""]
NoCall == [op |-> "none", ok |-> FALSE, item |-> NullItem]
IdleForm == [pc |-> "idle", forms |-> <<>>, i |-> 0, clicked |-> FALSE]

\* A job whose _processPage passed the admission check and awaits newPage().
Started(t) == [pc |-> "newPage", url |-> t.url, depth |-> t.depth, err |-> "none",
               page |-> "none", committed |-> FALSE]

\* A job whose _processPage returned at the admission check: its promise is
\* resolved, the slot is released by the microtask that follows the turn.
Dropped(t) == [pc |-> "dropped", url |-> t.url, depth |-> t.depth, err |-> "none",
               page |-> "none", committed |-> FALSE]

\* ---- QueueManager (src/core/QueueManager.js) ----------------------------
QM == [queue |-> queue, visited |-> visited, failed |-> failed, enqueued |-> enqueued]

hasVisited(vis, url) == url \in vis

\* An addVisited that adds nothing.
addVisited_Nothing(vis, url) == vis

addVisited(vis, url) == vis \cup {url}

addFailed(fl, url) == fl \cup {url}

\* add without the test on enqueued.
add_IgnoresEnqueued(qm, url, depth, referer) ==
  IF url \in qm.visited
  THEN [qm |-> qm, result |-> FALSE]
  ELSE [qm |-> [qm EXCEPT !.enqueued = @ \cup {url},
                          !.queue = Append(@, [url |-> url, depth |-> depth,
                                               referer |-> referer])],
        result |-> TRUE]

\* add(url, depth, referer): the manager after the call and the value returned.
add(qm, url, depth, referer) ==
  IF url \in qm.visited \/ url \in qm.enqueued
  THEN [qm |-> qm, result |-> FALSE]
  ELSE [qm |-> [qm EXCEPT !.enqueued = @ \cup {url},
                          !.queue = Append(@, [url |-> url, depth |-> depth,
                                               referer |-> referer])],
        result |-> TRUE]

\* A sort that puts an item before the items of its own depth.
RECURSIVE InsertByDepth_BeforeEquals(_, _)
InsertByDepth_BeforeEquals(sorted, item) ==
  IF sorted = <<>> THEN <<item>>
  ELSE IF Head(sorted).depth < item.depth
       THEN <<Head(sorted)>> \o InsertByDepth_BeforeEquals(Tail(sorted), item)
       ELSE <<item>> \o sorted

\* Array.prototype.sort((a, b) => a.depth - b.depth): stable, ascending depth.
RECURSIVE InsertByDepth(_, _)
InsertByDepth(sorted, item) ==
  IF sorted = <<>> THEN <<item>>
  ELSE IF Head(sorted).depth <= item.depth
       THEN <<Head(sorted)>> \o InsertByDepth(Tail(sorted), item)
       ELSE <<item>> \o sorted

RECURSIVE SortByDepth(_)
SortByDepth(q) ==
  IF q = <<>> THEN <<>>
  ELSE InsertByDepth(SortByDepth(SubSeq(q, 1, Len(q) - 1)), q[Len(q)])

\* A getNext that does not skip the URLs in failed.
RECURSIVE getNext_ReturnsFailed(_)
getNext_ReturnsFailed(qm) ==
  IF qm.queue = <<>> THEN [qm |-> qm, item |-> NullItem]
  ELSE LET sorted == SortByDepth(qm.queue)
           item == Head(sorted)
           q1 == [qm EXCEPT !.queue = Tail(sorted), !.enqueued = @ \ {item.url}]
       IN IF item.url \in q1.visited
          THEN getNext_ReturnsFailed(q1)
          ELSE [qm |-> [q1 EXCEPT !.visited = @ \cup {item.url}], item |-> item]

\* getNext(): the manager after the call and the item returned (NullItem for null).
RECURSIVE getNext(_)
getNext(qm) ==
  IF qm.queue = <<>> THEN [qm |-> qm, item |-> NullItem]
  ELSE LET sorted == SortByDepth(qm.queue)
           item == Head(sorted)
           q1 == [qm EXCEPT !.queue = Tail(sorted), !.enqueued = @ \ {item.url}]
       IN IF item.url \in q1.visited \/ item.url \in q1.failed
          THEN getNext(q1)
          ELSE [qm |-> [q1 EXCEPT !.visited = @ \cup {item.url}], item |-> item]

\* ---- p-queue as used by crawlPages (concurrency: threads, autoStart) -----
\* A queue state is [tk |-> the bag of jobs in flight, pq |-> the waiting jobs].
One(t) == SetToBag({t})

Pending(tk) == BagCardinality(tk)

\* The admission check without the depth test, and without the page budget.
Admit_NoDepthTest(t) ==
  ~(hasVisited(visited, t.url) \/ Len(allPages) >= maxPages)

Admit_NoPageBudget(t) ==
  ~(hasVisited(visited, t.url) \/ t.depth > maxDepth)

\* _processPage, line 49: the admission check run when the job starts.
Admit(t) ==
  ~(hasVisited(visited, t.url) \/ t.depth > maxDepth \/ Len(allPages) >= maxPages)

\* The job runs synchronously up to its first await (or its early return).
RunJob(t) == IF Admit(t) THEN Started(t) ELSE Dropped(t)

\* A queue that allows one job more than its concurrency.
ConcurrencyAllows_OffByOne(tk) == Pending(tk) <= threads

\* p-queue starts the next waiting job when pending < concurrency.
ConcurrencyAllows(tk) == Pending(tk) < threads

TryToStartAnother(st) ==
  IF ConcurrencyAllows(st.tk) /\ st.pq # <<>>
  THEN [tk |-> st.tk (+) One(RunJob(Head(st.pq))), pq |-> Tail(st.pq)]
  ELSE st

\* queue.add(job)
PQAdd(st, t) == TryToStartAnother([st EXCEPT !.pq = Append(@, t)])

\* The job t has settled: pending--, start another.
PQNext(st, t) == TryToStartAnother([st EXCEPT !.tk = @ (-) One(t)])

\* The microtasks after a turn: every job that returned at the admission check
\* settles, and each settlement may start (and drop) a further waiting job.
RECURSIVE Microtasks(_)
Microtasks(st) ==
  IF \E t \in BagToSet(st.tk) : t.pc = "dropped"
  THEN Microtasks(PQNext(st, CHOOSE t \in BagToSet(st.tk) : t.pc = "dropped"))
  ELSE st

\* _processPage, lines 146-163: the enqueue loop over the links that passed the
\* scope and extension filters.
RECURSIVE EnqueueLinks(_, _, _)
EnqueueLinks(links, depth, st) ==
  IF links = <<>> THEN st
  ELSE LET link == Head(links)
           st1 == IF hasVisited(visited, link) THEN st
                  ELSE IF Len(allPages) + Len(st.pq) < maxPages
                       THEN PQAdd(st, [url |-> link, depth |-> depth + 1])
                       ELSE st
       IN EnqueueLinks(Tail(links), depth, st1)

\* The lists of links a page can yield: the extracted links (deduplicated)
\* followed by the URLs seen in JSON responses (a Set).
NoDup(s) == \A i, j \in 1..Len(s) : i # j => s[i] # s[j]

SeqsUpTo(S, n) == UNION {[1..k -> S] : k \in 0..n}

UniqueLists == {s \in SeqsUpTo(URLs, MaxLinks) : NoDup(s)}

LinkLists ==
  UNION {{l \o a : a \in {x \in UniqueLists : Len(x) + Len(l) <= MaxLinks}} : l \in UniqueLists}

\* ---- StateManager.saveState (src/utils/StateManager.js) ------------------
\* The URLs given to runCrawl (one URL, or the lines of the list file), and
\* the one start() is crawling: config url, set by crawl(url) (line 144).
UrlList == <<Seed, "a">>
startUrl == IF listPos \in 1..Len(UrlList) THEN UrlList[listPos] ELSE Seed

\* The snapshot written: the target URL, visited, QueueManager.queue as
\* {url, depth}, the pages. When writeFileSync throws, the catch of lines
\* 105-107 logs and the file is as it was.
saveState(file, vis, q, pages) ==
  IF ~autoResume \/ diskFails THEN file
  ELSE [exists |-> TRUE, readable |-> TRUE, url |-> startUrl, visited |-> vis,
        queue |-> [k \in 1..Len(q) |-> [url |-> q[k].url, depth |-> q[k].depth]],
        pages |-> pages, completed |-> completed]

\* ---- the awaits of _processPage after navigation -------------------------
\* "settle"     waitForLoadState('networkidle') with networkIdle, its rejection
\*              caught in place (line 59), then page.waitForTimeout (lines 60, 62)
\* "analyze"    the awaits of lines 65-137, each rejection caught where it
\*              happens: CAPTCHA, technologies, JS chunks, forms, endpoints,
\*              secrets, scroll, clicks, SPA detection, AJAX settling
\* "links"      extractLinks (line 141)
\* "title"      page.title() (line 165)
\* ---- PageProcessor.crawlPages, lines 25-44 -------------------------------
CrawlPages ==
  /\ crawlPc = "start"
  /\ LET st == Microtasks(PQAdd([tk |-> tasks, pq |-> pqueue], [url |-> startUrl, depth |-> 0]))
     IN /\ tasks' = st.tk
        /\ pqueue' = st.pq
  /\ crawlPc' = "awaitIdle"
  /\ UNCHANGED <<extVars, cfgVars, visited, qmVars, allPages, stateFile, histVars>>

\* An idle test that looks at the waiting jobs only.
QueueIdle_WaitingOnly == pqueue = <<>>

\* queue.onIdle() resolves: nothing waiting, nothing in flight (lines 44-45).
QueueIdle == pqueue = <<>> /\ tasks = EmptyBag

OnIdle ==
  /\ crawlPc = "awaitIdle"
  /\ QueueIdle
  /\ crawlPc' = "returned"
  /\ UNCHANGED <<extVars, cfgVars, pqueue, tasks, visited, qmVars, allPages, stateFile,
                 histVars>>

\* ---- PageProcessor._processPage, one action per await ---------------------
\* The job t goes on as u.
Becomes(t, u) == (tasks (-) One(t)) (+) One(u)

\* context.newPage() resolves; page.goto(url) is called (lines 54-57).
NewPage(t) ==
  /\ t.pc = "newPage"
  /\ tasks' = Becomes(t, [t EXCEPT !.pc = "goto", !.page = "open"])
  /\ navigated' = navigated \cup {t.url}
  /\ UNCHANGED <<extVars, cfgVars, crawlPc, pqueue, visited, qmVars, allPages, stateFile, ended>>

\* page.goto resolves: the settle step is awaited (lines 58-63).
GotoOk(t) ==
  /\ t.pc = "goto"
  /\ tasks' = Becomes(t, [t EXCEPT !.pc = "settle"])
  /\ UNCHANGED <<extVars, cfgVars, crawlPc, pqueue, visited, qmVars, allPages, stateFile,
                 histVars>>

\* A navigation failure that still records the page.
GotoFail_Records(t) ==
  /\ t.pc = "goto"
  /\ tasks' = (tasks (-) One(t)) (+) One([t EXCEPT !.pc = "close", !.err = "nav"])
  /\ allPages' = Append(allPages, [url |-> t.url, depth |-> t.depth])
  /\ UNCHANGED <<extVars, cfgVars, crawlPc, pqueue, visited, qmVars, stateFile, histVars>>

\* page.goto rejects (timeout, error): catch (line 174), then finally.
GotoFail(t) ==
  /\ t.pc = "goto"
  /\ tasks' = Becomes(t, [t EXCEPT !.pc = "close", !.err = "nav"])
  /\ UNCHANGED <<extVars, cfgVars, crawlPc, pqueue, visited, qmVars, allPages, stateFile,
                 histVars>>

\* The settle wait resolves: the analysis stages begin.
SettleOk(t) ==
  /\ t.pc = "settle"
  /\ tasks' = Becomes(t, [t EXCEPT !.pc = "analyze"])
  /\ UNCHANGED <<extVars, cfgVars, crawlPc, pqueue, visited, qmVars, allPages, stateFile,
                 histVars>>

\* page.waitForTimeout of the settle step (lines 60, 62) rejects: it is not
\* inside an inner try, so the outer catch (line 174) takes it.
SettleFail(t) ==
  /\ t.pc = "settle"
  /\ tasks' = Becomes(t, [t EXCEPT !.pc = "close", !.err = "settle"])
  /\ UNCHANGED <<extVars, cfgVars, crawlPc, pqueue, visited, qmVars, allPages, stateFile,
                 histVars>>

\* The awaits of lines 65-137 settle. Each rejection is caught where it happens
\* and leaves the crawl state as it is, so either outcome leads to extractLinks.
Analyze(t) ==
  /\ t.pc = "analyze"
  /\ tasks' = Becomes(t, [t EXCEPT !.pc = "links"])
  /\ UNCHANGED <<extVars, cfgVars, crawlPc, pqueue, visited, qmVars, allPages, stateFile,
                 histVars>>

\* extractLinks settles (lines 139-163); a rejection is caught and leaves the
\* extracted list empty, with only the intercepted URLs. Then the enqueue loop
\* runs and page.title() is awaited.
ExtractLinks(t) ==
  /\ t.pc = "links"
  /\ \E links \in LinkLists :
       LET u == [t EXCEPT !.pc = "title"]
           st == Microtasks(EnqueueLinks(links, t.depth,
                                         [tk |-> Becomes(t, u), pq |-> pqueue]))
       IN /\ tasks' = st.tk
          /\ pqueue' = st.pq
  /\ UNCHANGED <<extVars, cfgVars, crawlPc, visited, qmVars, allPages, stateFile, histVars>>

\* page.title() settles (a rejection yields 'Untitled'): the commit, lines
\* 165-172, then finally awaits page.close().
Commit(t) ==
  /\ t.pc = "title"
  /\ tasks' = Becomes(t, [t EXCEPT !.pc = "close", !.committed = TRUE])
  /\ allPages' = Append(allPages, [url |-> t.url, depth |-> t.depth])
  /\ visited' = addVisited(visited, t.url)
  /\ stateFile' = saveState(stateFile, visited', queue, allPages')
  /\ UNCHANGED <<extVars, cfgVars, crawlPc, pqueue, qmVars, histVars>>

\* A finally block that goes on to _wait without closing the page.
ClosePage_LeavesOpen(t) ==
  /\ t.pc = "close"
  /\ tasks' = Becomes(t, [t EXCEPT !.pc = "wait"])
  /\ UNCHANGED <<extVars, cfgVars, crawlPc, pqueue, visited, qmVars, allPages, stateFile,
                 histVars>>

\* page.close() settles (line 177); _wait(requestDelay) is awaited.
ClosePage(t) ==
  /\ t.pc = "close"
  /\ tasks' = Becomes(t, [t EXCEPT !.pc = "wait", !.page = "closed"])
  /\ UNCHANGED <<extVars, cfgVars, crawlPc, pqueue, visited, qmVars, allPages, stateFile,
                 histVars>>

\* _wait resolves, _processPage returns; p-queue releases the slot and starts
\* the next waiting job.
Finish(t) ==
  /\ t.pc = "wait"
  /\ LET st == Microtasks(PQNext([tk |-> tasks, pq |-> pqueue], t))
     IN /\ tasks' = st.tk
        /\ pqueue' = st.pq
  /\ ended' = ended \cup {t.url}
  /\ UNCHANGED <<extVars, cfgVars, crawlPc, visited, qmVars, allPages, stateFile, navigated>>

\* No form has been looked at (the other specifications).
NoForms ==
  /\ formDom = [p \in URLs |-> <<>>]
  /\ formTask = [p \in URLs |-> IdleForm]
  /\ submittedForms = {}
  /\ fills = {}
  /\ reports = {}

\* No request has been seen (the other specifications).
NoTraffic ==
  /\ sameOrigin = FALSE
  /\ includeSubdomains = FALSE
  /\ requests = <<>>
  /\ allRequests = <<>>
  /\ requestCounter = 0
  /\ responses = <<>>
  /\ awaiting = EmptyBag
  /\ sent = 0
  /\ scopeQueue = {}
  /\ rejected = {}

\* No page task is looked at stage by stage, no stop has been asked for (the
\* other specifications).
NoPage == [stage |-> "none"]
NoDetail ==
  /\ pageTask = NoPage
  /\ pageDom = NoPage
  /\ stopRequested = FALSE

\* Nothing has been written to the output directory (the other specifications).
NoWrite == [written |-> FALSE]
NoOutput ==
  /\ pairs = <<>>
  /\ outPc = "capturing"
  /\ exported = <<>>
  /\ httpRaw = NoWrite

\* crawlPages is called on a new engine, no snapshot on disk (the other
\* specifications).
NoEngine ==
  /\ enginePc = "crawling"
  /\ snap = NoFile
  /\ accepted = FALSE
  /\ diskFails = FALSE
  /\ listPos = 1
  /\ completed = FALSE

\* No method is studied by itself (the other specifications).
Idle == [op |-> "none"]
NoFn == call = Idle

Init ==
  /\ threads \in 1..MaxThreads
  /\ maxPages \in 1..MaxPagesBound
  /\ maxDepth \in 1..MaxDepthBound
  /\ autoResume \in BOOLEAN
  /\ crawlPc = "start"
  /\ pqueue = <<>>
  /\ tasks = EmptyBag
  /\ visited = {}
  /\ enqueued = {}
  /\ queue = <<>>
  /\ failed = {}
  /\ allPages = <<>>
  /\ stateFile = NoFile
  /\ navigated = {}
  /\ ended = {}
  /\ ret = NoCall
  /\ NoForms
  /\ NoTraffic
  /\ NoEngine
  /\ NoOutput
  /\ NoFn
  /\ NoDetail

InFlight == BagToSet(tasks)

Next ==
  \/ CrawlPages
  \/ OnIdle
  \/ \E t \in InFlight : NewPage(t)
  \/ \E t \in InFlight : GotoOk(t)
  \/ \E t \in InFlight : GotoFail(t)
  \/ \E t \in InFlight : SettleOk(t)
  \/ \E t \in InFlight : SettleFail(t)
  \/ \E t \in InFlight : Analyze(t)
  \/ \E t \in InFlight : ExtractLinks(t)
  \/ \E t \in InFlight : Commit(t)
  \/ \E t \in InFlight : ClosePage(t)
  \/ \E t \in InFlight : Finish(t)

Spec == Init /\ [][Next]_vars

\* ---- the QueueManager API driven directly --------------------------------
\* The arguments the API is called with.
Depths == 0..MaxDepthBound
Referers == {"", Seed}

crawlVars == <<extVars, cfgVars, crawlPc, pqueue, tasks, allPages, stateFile, histVars>>

\* The method called, the boolean it returned (add) and the item it was called
\* with (add) or returned (getNext, NullItem for null).
Returned(op, ok, item) == [op |-> op, ok |-> ok, item |-> item]

DoAdd(url, depth, referer) ==
  /\ LET r == add(QM, url, depth, referer)
     IN /\ queue' = r.qm.queue
        /\ enqueued' = r.qm.enqueued
        /\ visited' = r.qm.visited
        /\ failed' = r.qm.failed
        /\ ret' = Returned("add", r.result, [url |-> url, depth |-> depth, referer |-> referer])
  /\ UNCHANGED crawlVars

DoGetNext ==
  /\ LET r == getNext(QM)
     IN /\ queue' = r.qm.queue
        /\ enqueued' = r.qm.enqueued
        /\ visited' = r.qm.visited
        /\ failed' = r.qm.failed
        /\ ret' = Returned("getNext", FALSE, r.item)
  /\ UNCHANGED crawlVars

DoAddVisited(url) ==
  /\ visited' = addVisited(visited, url)
  /\ ret' = Returned("addVisited", FALSE, NullItem)
  /\ UNCHANGED <<crawlVars, queue, enqueued, failed>>

DoAddFailed(url) ==
  /\ failed' = addFailed(failed, url)
  /\ ret' = Returned("addFailed", FALSE, NullItem)
  /\ UNCHANGED <<crawlVars, queue, enqueued, visited>>

InitQM ==
  /\ threads = 1
  /\ maxPages = 1
  /\ maxDepth = 1
  /\ autoResume = FALSE
  /\ crawlPc = "start"
  /\ pqueue = <<>>
  /\ tasks = EmptyBag
  /\ visited = {}
  /\ enqueued = {}
  /\ queue = <<>>
  /\ failed = {}
  /\ allPages = <<>>
  /\ stateFile = NoFile
  /\ navigated = {}
  /\ ended = {}
  /\ ret = NoCall
  /\ NoForms
  /\ NoTraffic
  /\ NoEngine
  /\ NoOutput
  /\ NoFn
  /\ NoDetail

NextQM ==
  \/ \E url \in URLs, depth \in Depths, referer \in Referers : DoAdd(url, depth, referer)
  \/ DoGetNext
  \/ \E url \in URLs : DoAddVisited(url)
  \/ \E url \in URLs : DoAddFailed(url)

SpecQM == InitQM /\ [][NextQM]_vars

\* ---- the order of getNext (QueueManager.js, lines 11-34) -------------------
\* call.added lists the URLs in the order add accepted them, call.before is
\* the manager as the last getNext found it, call.item what it returned.
OrderUrls == {"s", "a", "b"}
MaxAdds == 3

nonQueueVars == <<formVars, netVars, engineVars, outVars, pageVars, stopVars, cfgVars,
                  crawlPc, pqueue, tasks, allPages, stateFile, histVars>>

OrderAdd(url, depth) ==
  /\ Len(call.added) < MaxAdds
  /\ LET r == add(QM, url, depth, "")
     IN /\ queue' = r.qm.queue
        /\ enqueued' = r.qm.enqueued
        /\ visited' = r.qm.visited
        /\ failed' = r.qm.failed
        /\ ret' = Returned("add", r.result, [url |-> url, depth |-> depth, referer |-> ""])
        /\ call' = [call EXCEPT !.op = "add",
                                !.added = IF r.result THEN Append(@, url) ELSE @]
  /\ UNCHANGED nonQueueVars

OrderGetNext ==
  /\ LET r == getNext(QM)
     IN /\ queue' = r.qm.queue
        /\ enqueued' = r.qm.enqueued
        /\ visited' = r.qm.visited
        /\ failed' = r.qm.failed
        /\ ret' = Returned("getNext", FALSE, r.item)
        /\ call' = [call EXCEPT !.op = "getNext", !.before = QM, !.item = r.item]
  /\ UNCHANGED nonQueueVars

OrderAddFailed(url) ==
  /\ failed' = addFailed(failed, url)
  /\ ret' = Returned("addFailed", FALSE, NullItem)
  /\ call' = [call EXCEPT !.op = "addFailed"]
  /\ UNCHANGED <<nonQueueVars, queue, enqueued, visited>>

InitOrder ==
  /\ threads = 1
  /\ maxPages = 1
  /\ maxDepth = 1
  /\ autoResume = FALSE
  /\ crawlPc = "start"
  /\ pqueue = <<>>
  /\ tasks = EmptyBag
  /\ visited = {}
  /\ enqueued = {}
  /\ queue = <<>>
  /\ failed = {}
  /\ allPages = <<>>
  /\ stateFile = NoFile
  /\ navigated = {}
  /\ ended = {}
  /\ ret = NoCall
  /\ NoForms
  /\ NoTraffic
  /\ NoEngine
  /\ NoOutput
  /\ NoDetail
  /\ call = [op |-> "new", added |-> <<>>, before |-> QM, item |-> NullItem]

NextOrder ==
  \/ \E url \in OrderUrls, depth \in Depths : OrderAdd(url, depth)
  \/ OrderGetNext
  \/ \E url \in OrderUrls : OrderAddFailed(url)

SpecOrder == InitOrder /\ [][NextOrder]_vars

\* ---- FormProcessor.processForm (src/core/FormProcessor.js) ---------------
\* The containers a page can hold: a container without an action attribute
\* (action ""), and two forms posting to the same-origin path "/x".
FormKinds ==
  {[method |-> "POST", action |-> "", sig |-> "f1"],
   [method |-> "POST", action |-> "/x", sig |-> "f1"],
   [method |-> "GET", action |-> "/x", sig |-> "f2"]}

\* cap() without the seen set of line 40: every container is a candidate.
RECURSIVE Capture_NoSeen(_, _, _)
Capture_NoSeen(dom, page, seen) ==
  IF dom = <<>> THEN <<>>
  ELSE LET c == Head(dom)
       IN <<[method |-> c.method,
             action |-> IF c.action = "" THEN page ELSE c.action,
             sig |-> c.sig]>> \o Capture_NoSeen(Tail(dom), page, seen)

\* page.evaluate, lines 38-96: cap() keeps the first container of each field
\* signature on the page; a container without action gets the page's URL.
RECURSIVE Capture(_, _, _)
Capture(dom, page, seen) ==
  IF dom = <<>> THEN <<>>
  ELSE LET c == Head(dom)
       IN IF c.sig \in seen THEN Capture(Tail(dom), page, seen)
          ELSE <<[method |-> c.method,
                  action |-> IF c.action = "" THEN page ELSE c.action,
                  sig |-> c.sig]>> \o Capture(Tail(dom), page, seen \cup {c.sig})

\* formGlobalSignature, line 107
FormKey(f) == <<f.method, f.action, f.sig>>

\* The for loop of lines 105-112 up to its next await: the forms whose key is
\* in submittedForms are skipped.
RECURSIVE NextForm(_, _, _)
NextForm(forms, i, sub) ==
  IF i > Len(forms) THEN i
  ELSE IF FormKey(forms[i]) \in sub THEN NextForm(forms, i + 1, sub)
       ELSE i

nonFormVars == <<netVars, engineVars, outVars, pageVars, stopVars, fnVars, cfgVars, crawlPc, pqueue, tasks, visited, enqueued, queue, failed,
                 allPages, stateFile, navigated, ended, ret>>

FormsRunning == Cardinality({p \in URLs : formTask[p].pc \notin {"idle", "done"}})

\* The loop goes on from form i with the keys sub: it ends (line 123) or calls
\* fillAndSubmitForm (line 115).
LoopFrom(p, forms, i, sub) ==
  LET j == NextForm(forms, i, sub)
  IN IF j > Len(forms)
     THEN /\ formTask' = [formTask EXCEPT ![p] = [pc |-> "done", forms |-> forms,
                                                   i |-> j, clicked |-> FALSE]]
          /\ fills' = fills
     ELSE /\ formTask' = [formTask EXCEPT ![p] = [pc |-> "fill", forms |-> forms,
                                                   i |-> j, clicked |-> FALSE]]
          /\ fills' = fills \cup {[page |-> p, key |-> FormKey(forms[j])]}

\* A page task reaches line 86 and calls processForm (a free slot of the queue).
StartForms(p) ==
  /\ formTask[p].pc = "idle"
  /\ FormsRunning < threads
  /\ formTask' = [formTask EXCEPT ![p].pc = "scan"]
  /\ UNCHANGED <<nonFormVars, formDom, submittedForms, fills, reports>>

\* waitForTimeout(1000) and the scan of the page settle (lines 23-98).
FormScan(p) ==
  /\ formTask[p].pc = "scan"
  /\ LoopFrom(p, Capture(formDom[p], p, {}), 1, submittedForms)
  /\ UNCHANGED <<nonFormVars, formDom, submittedForms, reports>>

\* fillAndSubmitForm: the fields are filled (lines 136-219), the submit control
\* is looked for.
FormFilled(p) ==
  /\ formTask[p].pc = "fill"
  /\ formTask' = [formTask EXCEPT ![p].pc = "click"]
  /\ UNCHANGED <<nonFormVars, formDom, submittedForms, fills, reports>>

\* Lines 232-273: a submit control or a submit-intent button is clicked, or
\* none is found.
FormClick(p) ==
  /\ formTask[p].pc = "click"
  /\ \E c \in BOOLEAN :
       formTask' = [formTask EXCEPT ![p].pc = "confirm", ![p].clicked = c]
  /\ UNCHANGED <<nonFormVars, formDom, submittedForms, fills, reports>>

\* Lines 277-286: the wait for a POST or navigation settles, either way
\* fillAndSubmitForm returns submitted: true; processForm adds the key (118).
FormConfirmed(p) ==
  /\ formTask[p].pc = "confirm"
  /\ LET t == formTask[p]
         key == FormKey(t.forms[t.i])
         r == [page |-> p, key |-> key, clicked |-> t.clicked, submitted |-> TRUE]
     IN /\ reports' = reports \cup {r}
        /\ submittedForms' = IF r.submitted THEN submittedForms \cup {key}
                             ELSE submittedForms
  /\ formTask' = [formTask EXCEPT ![p].pc = "pause"]
  /\ UNCHANGED <<nonFormVars, formDom, fills>>

\* waitForTimeout(1500) settles (line 122); the loop goes on.
FormPause(p) ==
  /\ formTask[p].pc = "pause"
  /\ LoopFrom(p, formTask[p].forms, formTask[p].i + 1, submittedForms)
  /\ UNCHANGED <<nonFormVars, formDom, submittedForms, reports>>

InitForms ==
  /\ threads \in 1..MaxThreads
  /\ maxPages = 1
  /\ maxDepth = 1
  /\ autoResume = FALSE
  /\ crawlPc = "start"
  /\ pqueue = <<>>
  /\ tasks = EmptyBag
  /\ visited = {}
  /\ enqueued = {}
  /\ queue = <<>>
  /\ failed = {}
  /\ allPages = <<>>
  /\ stateFile = NoFile
  /\ navigated = {}
  /\ ended = {}
  /\ ret = NoCall
  /\ formDom \in [URLs -> SeqsUpTo(FormKinds, MaxForms)]
  /\ formTask = [p \in URLs |-> IdleForm]
  /\ submittedForms = {}
  /\ fills = {}
  /\ reports = {}
  /\ NoTraffic
  /\ NoEngine
  /\ NoOutput
  /\ NoFn
  /\ NoDetail

NextForms ==
  \/ \E p \in URLs : StartForms(p)
  \/ \E p \in URLs : FormScan(p)
  \/ \E p \in URLs : FormFilled(p)
  \/ \E p \in URLs : FormClick(p)
  \/ \E p \in URLs : FormConfirmed(p)
  \/ \E p \in URLs : FormPause(p)

SpecForms == InitForms /\ [][NextForms]_vars

\* ---- the scope filter (_processPage, lines 146-163) and NetworkCapture ----
\* A URL: its origin (scheme, host, port), its host name as labels, its extension.
SeedUrl == [origin |-> "https://t", host |-> <<"t">>, ext |-> "", query |-> 0]
ForeignUrl == [origin |-> "https://e", host |-> <<"e">>, ext |-> "", query |-> 0]

NetURLs ==
  {SeedUrl, ForeignUrl,
   [origin |-> "https://t", host |-> <<"t">>, ext |-> "png", query |-> 0],
   [origin |-> "https://t", host |-> <<"t">>, ext |-> "png", query |-> 1],
   [origin |-> "http://t", host |-> <<"t">>, ext |-> "", query |-> 0],
   [origin |-> "https://x.t", host |-> <<"x", "t">>, ext |-> "", query |-> 0]}

Methods == {"GET", "POST"}
Statuses == {200, 404}

\* DEFAULTS.BLOCKED_EXTENSIONS holds png.
BlockedExtensions == {"png"}

\* (link.split('.').pop() || '').toLowerCase().split('?')[0], line 155: what
\* follows the last dot, without the query string.
LinkExt(u) == u.ext

\* url.toLowerCase().endsWith(`.${ext}`), line 108: the query string, when
\* there is one, is the end of the URL.
EndsWithExt(u, ext) == u.ext = ext /\ u.query = 0

\* u.hostname === baseHost || u.hostname.endsWith(`.${baseHost}`), line 151
EndsWithBase(host, base) ==
  \/ host = base
  \/ Len(host) > Len(base) /\ SubSeq(host, Len(host) - Len(base) + 1, Len(host)) = base

\* A scope filter that lets every host under the seed's host through.
ScopeAllows_AnySubdomain(u) ==
  ~(sameOrigin /\ u.origin # SeedUrl.origin /\ ~EndsWithBase(u.host, SeedUrl.host))

\* Lines 149-153: the link is let through.
ScopeAllows(u) ==
  ~(/\ sameOrigin
    /\ u.origin # SeedUrl.origin
    /\ ~(includeSubdomains /\ EndsWithBase(u.host, SeedUrl.host)))

nonNetVars == <<formVars, engineVars, outVars, pageVars, stopVars, fnVars, cfgVars, crawlPc, pqueue, tasks, visited, enqueued, queue,
                failed, allPages, stateFile, navigated, ended, ret>>

\* One iteration of the enqueue loop on the link u. The visited test and the
\* page budget of lines 154 and 158 are those of EnqueueLinks: room.
OfferLink(u) ==
  /\ IF ~ScopeAllows(u)
     THEN /\ rejected' = rejected \cup {u}
          /\ scopeQueue' = scopeQueue
     ELSE /\ rejected' = rejected
          /\ IF LinkExt(u) \in BlockedExtensions
             THEN scopeQueue' = scopeQueue
             ELSE \E room \in BOOLEAN :
                    scopeQueue' = IF room THEN scopeQueue \cup {u} ELSE scopeQueue
  /\ UNCHANGED <<nonNetVars, sameOrigin, includeSubdomains, requests, allRequests,
                 requestCounter, responses, awaiting, sent>>

\* request.postData() and the content-type header: no body, a form-encoded
\* key=value body, a JSON body.
NoBody == "none"
Bodies == {NoBody, "form", "json"}

\* NetworkCapture.captureRequest, lines 96-142: the browser sends a request.
CaptureRequestWith(u, method, body) ==
  /\ sent < MaxRequests
  /\ sent' = sent + 1
  /\ awaiting' = awaiting (+) One([url |-> u, method |-> method])
  /\ IF \/ sameOrigin /\ u.origin # SeedUrl.origin
        \/ \E ext \in BlockedExtensions : EndsWithExt(u, ext)
     THEN UNCHANGED <<requests, allRequests, requestCounter>>
     ELSE LET id == requestCounter + 1
              stored == [id |-> id, url |-> u, method |-> method, postData |-> body]
          IN /\ requestCounter' = id
             /\ requests' = Append(requests, stored)
             /\ allRequests' = Append(allRequests, stored)
  /\ UNCHANGED <<nonNetVars, sameOrigin, includeSubdomains, responses, scopeQueue,
                 rejected>>

\* A request without a body.
CaptureRequest(u, method) == CaptureRequestWith(u, method, NoBody)

\* Array.from(requests.values()).find(r => r.url === url && r.method === method)
Matching(k) == {i \in 1..Len(requests) :
                  requests[i].url = k.url /\ requests[i].method = k.method}

Least(S) == CHOOSE i \in S : \A j \in S : i <= j

\* NetworkCapture.captureResponse, lines 144-165: the response to the browser's
\* request k arrives.
CaptureResponse(k, status) ==
  /\ k \in BagToSet(awaiting)
  /\ awaiting' = awaiting (-) One(k)
  /\ IF Matching(k) = {}
     THEN responses' = responses
     ELSE LET id == requests[Least(Matching(k))].id
          IN responses' = [i \in (DOMAIN responses) \cup {id} |->
                             IF i = id THEN status ELSE responses[i]]
  /\ UNCHANGED <<nonNetVars, sameOrigin, includeSubdomains, requests, allRequests,
                 requestCounter, sent, scopeQueue, rejected>>

InitScope ==
  /\ threads = 1
  /\ maxPages = 1
  /\ maxDepth = 1
  /\ autoResume = FALSE
  /\ crawlPc = "start"
  /\ pqueue = <<>>
  /\ tasks = EmptyBag
  /\ visited = {}
  /\ enqueued = {}
  /\ queue = <<>>
  /\ failed = {}
  /\ allPages = <<>>
  /\ stateFile = NoFile
  /\ navigated = {}
  /\ ended = {}
  /\ ret = NoCall
  /\ NoForms
  /\ sameOrigin \in BOOLEAN
  /\ includeSubdomains \in BOOLEAN
  /\ requests = <<>>
  /\ allRequests = <<>>
  /\ requestCounter = 0
  /\ responses = <<>>
  /\ awaiting = EmptyBag
  /\ sent = 0
  /\ scopeQueue = {}
  /\ rejected = {}
  /\ NoEngine
  /\ NoOutput
  /\ NoFn
  /\ NoDetail

NextScope ==
  \/ \E u \in NetURLs : OfferLink(u)
  \/ \E u \in NetURLs : CaptureRequest(u, "GET")

SpecScope == InitScope /\ [][NextScope]_vars

NextNet ==
  \/ \E u \in {SeedUrl, ForeignUrl}, method \in Methods : CaptureRequest(u, method)
  \/ \E k \in BagToSet(awaiting), status \in Statuses : CaptureResponse(k, status)

SpecNet == InitScope /\ [][NextNet]_vars

\* ---- the outputs: generateOutputs and NetworkCapture.flush ---------------
\* assetExt, line 74 of QueueManager.js
AssetExt == {"js", "css", "map"}

\* NetworkCapture._isAsset, lines 186-194
IsAsset(u) == u.ext \in AssetExt

\* NetworkCapture._score, lines 196-209
Score(r) ==
  (IF r.method = "POST" THEN 5 ELSE 0)
  + (IF r.postData = "form" THEN 5 ELSE 0)
  + (IF r.postData = "json" THEN 4 ELSE 0)
  + (IF r.url.query > 0 THEN (IF r.url.query < 3 THEN r.url.query ELSE 3) ELSE 0)

\* candidates.map(...).sort((a, b) => b.score - a.score)[0].r: the sort is
\* stable, the first of the candidates with the greatest score.
Best(candidates) ==
  candidates[Least({i \in DOMAIN candidates :
                      \A j \in DOMAIN candidates : Score(candidates[j]) <= Score(candidates[i])})]

\* HTTPFormatter._formatJSONLEntry, lines 76-113: entry.response?.status || 0
FormatJSONLEntry(entry) ==
  [endpoint |-> entry.url, method |-> entry.method,
   status_code |-> IF "response" \in DOMAIN entry THEN entry.response.status ELSE 0]

\* generateOutputs, lines 152-234, with the default formats (json, jsonl):
\* requests.jsonl is written from ResultManager.allRequests.
GenerateOutputs ==
  /\ outPc = "capturing"
  /\ outPc' = "generated"
  /\ exported' = [k \in DOMAIN allRequests |-> FormatJSONLEntry(allRequests[k])]
  /\ UNCHANGED <<formVars, engineVars, pageVars, stopVars, fnVars, cfgVars, crawlPc, pqueue, tasks, visited, enqueued,
                 queue, failed, allPages, stateFile, navigated, ended, ret, netVars,
                 pairs, httpRaw>>

\* NetworkCapture.flush, lines 167-184
Flush ==
  /\ outPc = "generated"
  /\ outPc' = "flushed"
  /\ LET candidates == SelectSeq(pairs, LAMBDA r : ~IsAsset(r.url))
     IN httpRaw' = IF Len(candidates) > 0
                   THEN [written |-> TRUE, request |-> Best(candidates)]
                   ELSE httpRaw
  /\ UNCHANGED <<formVars, engineVars, pageVars, stopVars, fnVars, cfgVars, crawlPc, pqueue, tasks, visited, enqueued,
                 queue, failed, allPages, stateFile, navigated, ended, ret, netVars,
                 pairs, exported>>

\* The requests of the pages: a page load, an API call with a JSON body, a
\* form post, a search with four query parameters, a script.
RequestKinds ==
  {[url |-> SeedUrl, method |-> "GET", body |-> NoBody],
   [url |-> SeedUrl, method |-> "POST", body |-> "json"],
   [url |-> SeedUrl, method |-> "POST", body |-> "form"],
   [url |-> [origin |-> "https://t", host |-> <<"t">>, ext |-> "", query |-> 4],
    method |-> "GET", body |-> NoBody],
   [url |-> [origin |-> "https://t", host |-> <<"t">>, ext |-> "js", query |-> 0],
    method |-> "GET", body |-> NoBody]}

\* ResultManager.allRequests after restoreResults (StateManager.js line 183):
\* nothing, or the request a previous run of the crawl has stored.
RestoredRequests ==
  {<<>>, <<[id |-> 1, url |-> SeedUrl, method |-> "GET", postData |-> NoBody]>>}

\* setupMonitor has made a new NetworkCapture (CrawlEngine.js lines 75-78,
\* after the restore of lines 93-100).
InitExport ==
  /\ threads = 1
  /\ maxPages = 1
  /\ maxDepth = 1
  /\ autoResume \in BOOLEAN
  /\ crawlPc = "start"
  /\ pqueue = <<>>
  /\ tasks = EmptyBag
  /\ visited = {}
  /\ enqueued = {}
  /\ queue = <<>>
  /\ failed = {}
  /\ allPages = <<>>
  /\ stateFile = NoFile
  /\ navigated = {}
  /\ ended = {}
  /\ ret = NoCall
  /\ NoForms
  /\ sameOrigin \in BOOLEAN
  /\ includeSubdomains = FALSE
  /\ requests = <<>>
  /\ allRequests \in (IF autoResume THEN RestoredRequests ELSE {<<>>})
  /\ requestCounter = 0
  /\ responses = <<>>
  /\ awaiting = EmptyBag
  /\ sent = 0
  /\ scopeQueue = {}
  /\ rejected = {}
  /\ NoEngine
  /\ NoOutput
  /\ NoFn
  /\ NoDetail

\* The pages send requests and receive responses until crawlPages has returned.
NextExport ==
  \/ /\ outPc = "capturing"
     /\ \E k \in RequestKinds : CaptureRequestWith(k.url, k.method, k.body)
  \/ /\ outPc = "capturing"
     /\ \E k \in BagToSet(awaiting) : CaptureResponse(k, 200)
  \/ GenerateOutputs
  \/ Flush

SpecExport == InitExport /\ [][NextExport]_vars

\* ---- one page task, stage by stage (part_001 lines 53-180) ----------------
\* scrollHeight of a page, in scroll steps of 100 px; script tags of a page;
\* the greatest value of the in-flight counter.
MaxScroll == 2
MaxScripts == 1
MaxActive == 2

\* maxWait = 3000 in polls of waitForTimeout(300); stallCount >= 3
MaxWaitPolls == 10
StallLimit == 3

\* The stages in the order of the statements of _processPage.
StageOrder ==
  <<"navigate", "settle", "captcha", "tech", "jsChunks", "forms", "endpoints",
    "secrets", "scroll", "click", "spa", "links", "enqueue", "commit">>

\* An order with the interaction heuristics before the secret scan.
StageOrder_ScrollFirst ==
  <<"navigate", "settle", "captcha", "tech", "jsChunks", "forms", "endpoints",
    "scroll", "secrets", "click", "spa", "links", "enqueue", "commit">>

StageIndex(order, s) == CHOOSE i \in DOMAIN order : order[i] = s

\* The conditions of lines 76 and 84: deepJSAnalysis and
\* stats.pagesVisited % 3 === 0, submitForms.
Runs(s, dom) ==
  /\ s = "jsChunks" => dom.deepJSAnalysis /\ dom.pagesVisited % 3 = 0
  /\ s = "forms" => dom.submitForms

NextIn(order, s, dom) ==
  order[Least({i \in DOMAIN order : i > StageIndex(order, s) /\ Runs(order[i], dom)})]

NextStage_ScrollFirst(s, dom) == NextIn(StageOrder_ScrollFirst, s, dom)

\* The stage that follows s.
NextStage(s, dom) == NextIn(StageOrder, s, dom)

\* The awaited statement of s has settled and the next stage is begun. The
\* response listener of line 120 is registered where the SPA stage begins.
Enter(pt, to, dom) ==
  [pt EXCEPT !.stage = to,
             !.sub = IF to = "secrets" THEN "content"
                     ELSE IF to = "spa" THEN "detect" ELSE "",
             !.gap = IF to = "scroll" THEN dom.scrollHeight ELSE @,
             !.listening = @ \/ to = "spa",
             !.trace = @ \o <<[stage |-> pt.stage, ev |-> "end"],
                              [stage |-> to, ev |-> "start"]>>]

Advance(pt, dom) == Enter(pt, NextStage(pt.stage, dom), dom)

\* The outer catch (line 174): no later stage, finally closes the page.
Abort(pt) ==
  [pt EXCEPT !.stage = "close", !.sub = "",
             !.trace = @ \o <<[stage |-> pt.stage, ev |-> "failed"]>>]

nonPageVars == <<formVars, netVars, engineVars, outVars, stopVars, fnVars, cfgVars, crawlPc, pqueue,
                 tasks, enqueued, queue, failed, navigated, ended, ret>>

\* page.goto settles (line 57).
Navigate ==
  /\ pageTask.stage = "navigate"
  /\ \E ok \in BOOLEAN :
       pageTask' = IF ok THEN Advance(pageTask, pageDom) ELSE Abort(pageTask)
  /\ UNCHANGED <<nonPageVars, pageDom, visited, allPages, stateFile>>

\* The settle wait settles (lines 58-63).
Settle ==
  /\ pageTask.stage = "settle"
  /\ \E ok \in BOOLEAN :
       pageTask' = IF ok THEN Advance(pageTask, pageDom) ELSE Abort(pageTask)
  /\ UNCHANGED <<nonPageVars, pageDom, visited, allPages, stateFile>>

\* The stages of one awaited call inside its own try/catch.
SimpleStages == {"captcha", "tech", "jsChunks", "forms", "endpoints", "click"}

\* handleCaptcha, detectTechnologies, analyzeChunks, processForm,
\* analyzeEndpoints, _clickInterestingButtons settle (lines 65-99, 118).
StageSettles(s) ==
  /\ pageTask.stage = s
  /\ pageTask' = Advance(pageTask, pageDom)
  /\ UNCHANGED <<nonPageVars, pageDom, visited, allPages, stateFile>>

\* The loop over the scripts (lines 105-110) with left scripts to fetch.
FetchLoop(pt, left, dom) ==
  IF left = 0 THEN Advance(pt, dom)
  ELSE [pt EXCEPT !.sub = "fetch", !.scriptsLeft = left]

\* page.content, scanContent and $$eval settle (lines 102-104); a rejection
\* ends the stage (line 115).
SecretsContent ==
  /\ pageTask.stage = "secrets" /\ pageTask.sub = "content"
  /\ \E ok \in BOOLEAN :
       pageTask' = IF ok THEN FetchLoop(pageTask, pageDom.scripts, pageDom)
                   ELSE Advance(pageTask, pageDom)
  /\ UNCHANGED <<nonPageVars, pageDom, visited, allPages, stateFile>>

\* page.evaluate(fetch(u).text()) settles (line 107): the server has answered
\* or the fetch has failed. Nothing bounds the wait.
FetchScript ==
  /\ pageTask.stage = "secrets" /\ pageTask.sub = "fetch"
  /\ pageDom.answers
  /\ pageTask' = FetchLoop(pageTask, pageTask.scriptsLeft - 1, pageDom)
  /\ UNCHANGED <<nonPageVars, pageDom, visited, allPages, stateFile>>

\* _scrollPage, lines 182-203: the interval timer of the page fires. gap is
\* scrollHeight - totalHeight in steps of distance, odd the parity of
\* totalHeight / distance.
ScrollTick ==
  /\ pageTask.stage = "scroll"
  /\ pageTask' = IF pageTask.gap <= 1
                 THEN Advance(pageTask, pageDom)
                 ELSE [pageTask EXCEPT
                         !.gap = @ - 1 + (IF pageDom.grows THEN 1 ELSE 0),
                         !.odd = ~@]
  /\ UNCHANGED <<nonPageVars, pageDom, visited, allPages, stateFile>>

\* page.evaluate of _scrollPage rejects (line 200): caught, the stage ends.
ScrollThrows ==
  /\ pageTask.stage = "scroll"
  /\ pageTask' = Advance(pageTask, pageDom)
  /\ UNCHANGED <<nonPageVars, pageDom, visited, allPages, stateFile>>

\* _detectSPA settles (line 133); a rejection counts as no SPA.
DetectSPA ==
  /\ pageTask.stage = "spa" /\ pageTask.sub = "detect"
  /\ \E ok \in BOOLEAN :
       pageTask' = IF ok /\ pageDom.isSPA
                   THEN [pageTask EXCEPT !.sub = "trigger"]
                   ELSE Advance(pageTask, pageDom)
  /\ UNCHANGED <<nonPageVars, pageDom, visited, allPages, stateFile>>

\* _triggerAJAXCalls settles (line 135).
TriggerAJAX ==
  /\ pageTask.stage = "spa" /\ pageTask.sub = "trigger"
  /\ pageTask' = [pageTask EXCEPT !.sub = "inject"]
  /\ UNCHANGED <<nonPageVars, pageDom, visited, allPages, stateFile>>

\* _waitForAJAXCompletion, lines 385-407: addScriptTag settles.
InjectCounter ==
  /\ pageTask.stage = "spa" /\ pageTask.sub = "inject"
  /\ \E ok \in BOOLEAN :
       pageTask' = IF ok
                   THEN [pageTask EXCEPT !.sub = "wait", !.elapsed = 0,
                                         !.lastActiveCount = -1, !.stallCount = 0,
                                         !.reads = <<>>, !.ajax = "polling"]
                   ELSE Advance([pageTask EXCEPT !.ajax = "error"], pageDom)
  /\ UNCHANGED <<nonPageVars, pageDom, visited, allPages, stateFile>>

\* The last StallLimit + 1 values read.
Recent(reads) ==
  IF Len(reads) <= StallLimit + 1 THEN reads
  ELSE SubSeq(reads, Len(reads) - StallLimit, Len(reads))

\* A stall count that is never reset.
StallAfter_NoReset(activeRequests, lastActiveCount, stallCount) == stallCount + 1

\* Lines 418-427: stallCount after a poll that read activeRequests.
StallAfter(activeRequests, lastActiveCount, stallCount) ==
  IF activeRequests = lastActiveCount THEN stallCount + 1 ELSE 0

\* One turn of the loop of lines 409-438: the counter is read as
\* activeRequests; when the loop goes on, waitForTimeout(300) takes late polls.
AjaxPoll(activeRequests, late) ==
  /\ pageTask.stage = "spa" /\ pageTask.sub = "wait"
  /\ pageTask.elapsed < MaxWaitPolls
  /\ LET pt == [pageTask EXCEPT !.reads = Recent(Append(@, activeRequests))]
         stall == StallAfter(activeRequests, pageTask.lastActiveCount, pageTask.stallCount)
     IN pageTask' =
          IF activeRequests = 0
          THEN Advance([pt EXCEPT !.ajax = "settled"], pageDom)
          ELSE IF stall >= StallLimit
               THEN Advance([pt EXCEPT !.ajax = "stalled", !.stallCount = stall], pageDom)
               ELSE [pt EXCEPT !.stallCount = stall,
                               !.lastActiveCount = activeRequests,
                               !.elapsed = @ + late]
  /\ UNCHANGED <<nonPageVars, pageDom, visited, allPages, stateFile>>

\* The loop condition of line 409 fails: timed out (lines 440-441).
AjaxTimeout ==
  /\ pageTask.stage = "spa" /\ pageTask.sub = "wait"
  /\ pageTask.elapsed >= MaxWaitPolls
  /\ pageTask' = Advance([pageTask EXCEPT !.ajax = "timedOut"], pageDom)
  /\ UNCHANGED <<nonPageVars, pageDom, visited, allPages, stateFile>>

\* page.evaluate or waitForTimeout rejects in the loop (lines 431-436, 442-445).
AjaxError ==
  /\ pageTask.stage = "spa" /\ pageTask.sub = "wait"
  /\ pageTask.elapsed < MaxWaitPolls
  /\ pageTask' = Advance([pageTask EXCEPT !.ajax = "error"], pageDom)
  /\ UNCHANGED <<nonPageVars, pageDom, visited, allPages, stateFile>>

\* The enqueue loop of lines 146-163 over links, the queue of PQueue being q:
\* the scope filter, the visited test, the blocked extensions, the page
\* budget, queue.add at depth + 1.
RECURSIVE EnqueueFound(_, _, _)
EnqueueFound(links, depth, q) ==
  IF links = <<>> THEN q
  ELSE LET link == Head(links)
           kept == /\ ScopeAllows(link)
                   /\ ~hasVisited(visited, link)
                   /\ LinkExt(link) \notin BlockedExtensions
                   /\ Len(allPages) + Len(q) < maxPages
       IN EnqueueFound(Tail(links), depth,
                       IF kept THEN Append(q, [url |-> link, depth |-> depth + 1]) ELSE q)

\* extractLinks settles (lines 139-142) with no anchor on the page; the URLs
\* of newAjaxUrls are appended (line 144), the enqueue loop runs (lines
\* 146-163) and page.title() is awaited (line 165). The locals of the
\* returned _waitForAJAXCompletion are gone.
LinksAndEnqueue ==
  /\ pageTask.stage = "links"
  /\ pqueue' = EnqueueFound(pageTask.newAjaxUrls, pageTask.depth, pqueue)
  /\ pageTask' = [pageTask EXCEPT
                    !.stage = "commit",
                    !.links = pageTask.newAjaxUrls,
                    !.reads = <<>>, !.elapsed = 0,
                    !.lastActiveCount = -1, !.stallCount = 0,
                    !.trace = @ \o <<[stage |-> "links", ev |-> "end"],
                                     [stage |-> "enqueue", ev |-> "start"],
                                     [stage |-> "enqueue", ev |-> "end"],
                                     [stage |-> "commit", ev |-> "start"]>>]
  /\ UNCHANGED <<formVars, netVars, engineVars, outVars, stopVars, fnVars, cfgVars, crawlPc,
                 tasks, enqueued, queue, failed, navigated, ended, ret,
                 pageDom, visited, allPages, stateFile>>

\* page.title() settles: the commit of lines 166-172, then finally.
CommitPage ==
  /\ pageTask.stage = "commit"
  /\ pageTask' = [pageTask EXCEPT !.stage = "close",
                                  !.trace = @ \o <<[stage |-> "commit", ev |-> "end"]>>]
  /\ allPages' = Append(allPages, [url |-> pageTask.url, depth |-> pageTask.depth])
  /\ visited' = addVisited(visited, pageTask.url)
  /\ stateFile' = saveState(stateFile, visited', queue, allPages')
  /\ UNCHANGED <<nonPageVars, pageDom>>

\* page.close() and _wait settle (lines 176-178): the task returns.
CloseTask ==
  /\ pageTask.stage = "close"
  /\ pageTask' = [pageTask EXCEPT !.stage = "done"]
  /\ UNCHANGED <<nonPageVars, pageDom, visited, allPages, stateFile>>

\* The pages and the configurations, and stats.pagesVisited, which the
\* constructor sets to 0 (line 21) and nothing assigns. A page without scripts has no server
\* to wait for, and growth is told apart only on a page taller than one step.
Doms ==
  {d \in [deepJSAnalysis : BOOLEAN, submitForms : BOOLEAN, isSPA : BOOLEAN,
           scrollHeight : 0..MaxScroll, grows : BOOLEAN, scripts : 0..MaxScripts,
           answers : BOOLEAN, pagesVisited : {0}] :
     /\ d.scripts = 0 => d.answers
     /\ d.scrollHeight <= 1 => ~d.grows}

\* The task for url after context.newPage(): page.goto is awaited. ordinal
\* counts the tasks that passed the admission check of line 49.
TaskFor(url, depth, ordinal) ==
  [url |-> url, depth |-> depth, ordinal |-> ordinal,
   stage |-> "navigate", sub |-> "", trace |-> <<[stage |-> "navigate", ev |-> "start"]>>,
   gap |-> 0, odd |-> FALSE, scriptsLeft |-> 0, reads |-> <<>>, elapsed |-> 0,
   lastActiveCount |-> -1, stallCount |-> 0, ajax |-> "none",
   listening |-> FALSE, parsing |-> {}, newAjaxUrls |-> <<>>, received |-> {},
   links |-> <<>>]

\* The seed task.
TaskAtGoto == TaskFor(SeedUrl, 0, 1)

InitPageWith(doms) ==
  /\ threads = 1
  /\ maxPages = 1
  /\ maxDepth = 1
  /\ autoResume = TRUE
  /\ crawlPc = "awaitIdle"
  /\ pqueue = <<>>
  /\ tasks = EmptyBag
  /\ visited = {}
  /\ enqueued = {}
  /\ queue = <<>>
  /\ failed = {}
  /\ allPages = <<>>
  /\ stateFile = NoFile
  /\ navigated = {Seed}
  /\ ended = {}
  /\ ret = NoCall
  /\ NoForms
  /\ NoTraffic
  /\ NoEngine
  /\ NoOutput
  /\ NoFn
  /\ stopRequested = FALSE
  /\ pageDom \in doms
  /\ pageTask = TaskAtGoto

InitPage == InitPageWith(Doms)

NextPage ==
  \/ Navigate
  \/ Settle
  \/ \E s \in SimpleStages : StageSettles(s)
  \/ SecretsContent
  \/ FetchScript
  \/ ScrollTick
  \/ ScrollThrows
  \/ DetectSPA
  \/ TriggerAJAX
  \/ InjectCounter
  \/ \E activeRequests \in 0..MaxActive, late \in 1..2 : AjaxPoll(activeRequests, late)
  \/ AjaxTimeout
  \/ AjaxError
  \/ LinksAndEnqueue
  \/ CommitPage
  \/ CloseTask

SpecPage == InitPage /\ [][NextPage]_vars

\* The event loop runs every await that settles; no rejection is owed.
PageFairness ==
  /\ WF_vars(Navigate)
  /\ WF_vars(Settle)
  /\ WF_vars(\E s \in SimpleStages : StageSettles(s))
  /\ WF_vars(SecretsContent)
  /\ WF_vars(FetchScript)
  /\ WF_vars(ScrollTick)
  /\ WF_vars(DetectSPA)
  /\ WF_vars(TriggerAJAX)
  /\ WF_vars(InjectCounter)
  /\ WF_vars(\E activeRequests \in 0..MaxActive, late \in 1..2 : AjaxPoll(activeRequests, late))
  /\ WF_vars(AjaxTimeout)
  /\ WF_vars(LinksAndEnqueue)
  /\ WF_vars(CommitPage)
  /\ WF_vars(CloseTask)

FairSpecPage == SpecPage /\ PageFairness

\* A single-page application whose scripts answer and whose height is fixed.
SpaDoms == {d \in Doms : d.isSPA /\ d.answers /\ ~d.grows /\ ~d.deepJSAnalysis
                         /\ ~d.submitForms /\ d.scrollHeight = 0}

InitAjax == InitPageWith(SpaDoms)

SpecAjax == InitAjax /\ [][NextPage]_vars

FairSpecAjax == SpecAjax /\ PageFairness

\* ---- JSON responses seen during the visit (part_001 lines 119-131, 144) ---
\* A URL of the seed's origin and a foreign one, as found in a JSON body.
ApiUrl == [origin |-> "https://t", host |-> <<"t">>, ext |-> "", query |-> 1]
JsonUrls == {ApiUrl, ForeignUrl}

\* The page receives a JSON response whose body holds the URL u, at any time
\* from page.goto to extractLinks. The handler of line 120 runs only if it
\* has been registered; it then awaits response.json().
JsonResponse(u) ==
  /\ pageTask.stage \notin {"commit", "close", "done"}
  /\ u \notin pageTask.received
  /\ pageTask' = [pageTask EXCEPT
                    !.received = @ \cup {u},
                    !.parsing = IF pageTask.listening THEN @ \cup {u} ELSE @]
  /\ UNCHANGED <<nonPageVars, pageDom, visited, allPages, stateFile>>

\* response.json() settles: the URLs of the body are added to newAjaxUrls
\* (lines 124-127).
JsonParsed(u) ==
  /\ u \in pageTask.parsing
  /\ pageTask' = [pageTask EXCEPT !.parsing = @ \ {u},
                                  !.newAjaxUrls = Append(@, u)]
  /\ UNCHANGED <<nonPageVars, pageDom, visited, allPages, stateFile>>

InitJson ==
  /\ threads = 1
  /\ maxPages = MaxPagesBound + 1
  /\ maxDepth = 1
  /\ autoResume = TRUE
  /\ crawlPc = "awaitIdle"
  /\ pqueue = <<>>
  /\ tasks = EmptyBag
  /\ visited = {}
  /\ enqueued = {}
  /\ queue = <<>>
  /\ failed = {}
  /\ allPages = <<>>
  /\ stateFile = NoFile
  /\ navigated = {Seed}
  /\ ended = {}
  /\ ret = NoCall
  /\ NoForms
  /\ sameOrigin \in BOOLEAN
  /\ includeSubdomains = FALSE
  /\ requests = <<>>
  /\ allRequests = <<>>
  /\ requestCounter = 0
  /\ responses = <<>>
  /\ awaiting = EmptyBag
  /\ sent = 0
  /\ scopeQueue = {}
  /\ rejected = {}
  /\ NoEngine
  /\ NoOutput
  /\ NoFn
  /\ stopRequested = FALSE
  /\ pageDom \in SpaDoms
  /\ pageTask = TaskAtGoto

NextJson ==
  \/ NextPage
  \/ \E u \in JsonUrls : JsonResponse(u)
  \/ \E u \in JsonUrls : JsonParsed(u)

SpecJson == InitJson /\ [][NextJson]_vars

\* ---- the page tasks of a crawl, one after another (threads = 1) ----------
\* The task has returned and PQueue starts the next job: the admission check
\* of line 49, then context.newPage().
StartQueued ==
  /\ pageTask.stage = "done"
  /\ pqueue # <<>>
  /\ pqueue' = Tail(pqueue)
  /\ LET job == Head(pqueue)
     IN pageTask' =
          IF hasVisited(visited, job.url) \/ job.depth > maxDepth \/ Len(allPages) >= maxPages
          THEN pageTask
          ELSE TaskFor(job.url, job.depth, pageTask.ordinal + 1)
  /\ UNCHANGED <<formVars, netVars, engineVars, outVars, stopVars, fnVars, cfgVars, crawlPc,
                 tasks, enqueued, queue, failed, navigated, ended, ret,
                 pageDom, visited, allPages, stateFile>>

\* Pages that are no single-page application, one script each.
PlainDoms == {d \in Doms : ~d.isSPA /\ d.answers /\ ~d.grows /\ ~d.submitForms
                           /\ d.scripts = 1 /\ d.scrollHeight = 0}

InitCrawlPages ==
  /\ threads = 1
  /\ maxPages = MaxPagesBound
  /\ maxDepth = 1
  /\ autoResume = TRUE
  /\ crawlPc = "awaitIdle"
  /\ pqueue = <<>>
  /\ tasks = EmptyBag
  /\ visited = {}
  /\ enqueued = {}
  /\ queue = <<>>
  /\ failed = {}
  /\ allPages = <<>>
  /\ stateFile = NoFile
  /\ navigated = {Seed}
  /\ ended = {}
  /\ ret = NoCall
  /\ NoForms
  /\ NoTraffic
  /\ NoEngine
  /\ NoOutput
  /\ NoFn
  /\ stopRequested = FALSE
  /\ pageDom \in PlainDoms
  /\ pageTask = TaskAtGoto

NextCrawlPages ==
  \/ Navigate
  \/ Settle
  \/ \E s \in SimpleStages : StageSettles(s)
  \/ SecretsContent
  \/ FetchScript
  \/ ScrollTick
  \/ DetectSPA
  \/ LinksAndEnqueue
  \/ CommitPage
  \/ CloseTask
  \/ JsonResponse(ApiUrl)
  \/ JsonParsed(ApiUrl)
  \/ StartQueued

SpecCrawlPages == InitCrawlPages /\ [][NextCrawlPages]_vars

\* ---- CrawlEngine.start and StateManager (src/utils/StateManager.js) -------
\* DEFAULTS.THREADS
DefaultThreads == 1

\* A snapshot file that cannot be parsed.
Unreadable == [exists |-> TRUE, readable |-> FALSE, url |-> "", visited |-> {},
               queue |-> <<>>, pages |-> <<>>, completed |-> FALSE]

\* The pages of a stored snapshot: one PageRecord for each visited URL.
RECURSIVE PagesOf(_)
PagesOf(vis) ==
  IF vis = {} THEN <<>>
  ELSE LET u == CHOOSE x \in vis : TRUE
       IN <<[url |-> u, depth |-> IF u = Seed THEN 0 ELSE 1]>> \o PagesOf(vis \ {u})

SnapQueues == {<<>>} \cup {<<[url |-> u, depth |-> 1]>> : u \in URLs}

\* The files start() can find: none, an unreadable one, the snapshot of another
\* URL of the same host (init names the file after the host), and snapshots of
\* the target.
SnapFiles ==
  {NoFile, Unreadable,
   [exists |-> TRUE, readable |-> TRUE, url |-> "s/p", visited |-> {"a"},
    queue |-> <<[url |-> "a", depth |-> 1]>>, pages |-> PagesOf({"a"}),
    completed |-> FALSE]}
  \cup {[exists |-> TRUE, readable |-> TRUE, url |-> Seed, visited |-> v, queue |-> q,
         pages |-> PagesOf(v), completed |-> FALSE] : v \in SUBSET URLs, q \in SnapQueues}

\* A loadState that does not compare the stored URL.
loadState_AnyUrl(file) == autoResume /\ ~diskFails /\ file.exists /\ file.readable

\* StateManager.loadState, lines 56-77 (state.url is the target, set by init)
loadState(file) ==
  autoResume /\ ~diskFails /\ file.exists /\ file.readable /\ file.url = startUrl

\* A restoreVisited that restores nothing.
restoreVisited_Nothing(vis, st) == vis

\* StateManager.restoreVisited, lines 136-147
restoreVisited(vis, st) == vis \cup st.visited

\* StateManager.restoreQueue, lines 153-169
restoreQueue(vis, st) ==
  SelectSeq(st.queue, LAMBDA item : item.url # "" /\ ~hasVisited(vis, item.url))

\* StateManager.restoreResults, lines 175-206 (the pages)
restoreResults(pages, st) == IF Len(st.pages) > 0 THEN st.pages ELSE pages

\* A markComplete that leaves the file it wrote.
markComplete_KeepsFile(file, vis, q, pages) == saveState(file, vis, q, pages)

\* StateManager.markComplete, lines 115-130: state.completed = true,
\* saveState, then unlink; when unlinkSync throws the file stays.
markComplete(file, vis, q, pages) ==
  IF ~autoResume THEN file
  ELSE LET written == IF diskFails THEN file
                      ELSE [saveState(file, vis, q, pages) EXCEPT !.completed = TRUE]
       IN IF written.exists /\ ~diskFails THEN NoFile ELSE written

\* A catch block that rethrows what it caught.
Throws_Rethrown(ioError) == ioError

\* The catch blocks of loadState (lines 72-74), saveState (105-107) and
\* markComplete (127-129) log the error: nothing is thrown to the caller.
Throws(ioError) == FALSE

\* readFileSync or JSON.parse throws in loadState.
LoadError(file) == autoResume /\ file.exists /\ (diskFails \/ ~file.readable)

\* writeFileSync or unlinkSync throws in saveState or markComplete.
SaveError == autoResume /\ diskFails

crawlState == <<cfgVars, crawlPc, pqueue, tasks, enqueued, failed, navigated, ended, ret>>

\* start(), lines 90-100: initialize() resolves; the snapshot is loaded.
InitializeOk ==
  /\ enginePc = "init"
  /\ enginePc' = IF Throws(LoadError(stateFile)) THEN "failed" ELSE "context"
  /\ accepted' = loadState(stateFile)
  /\ IF loadState(stateFile)
     THEN /\ visited' = restoreVisited(visited, stateFile)
          /\ allPages' = restoreResults(allPages, stateFile)
          /\ queue' = LET restoredQueue == restoreQueue(visited', stateFile)
                      IN IF Len(restoredQueue) > 0 THEN restoredQueue ELSE queue
     ELSE UNCHANGED <<visited, allPages, queue>>
  /\ completed' = IF loadState(stateFile) THEN stateFile.completed ELSE completed
  /\ UNCHANGED <<formVars, netVars, outVars, pageVars, stopVars, fnVars, crawlState, stateFile, snap,
                 diskFails, listPos>>

\* initialize() rejects: catch (lines 131-137) saves the state and rethrows.
InitializeFail ==
  /\ enginePc = "init"
  /\ enginePc' = "failed"
  /\ stateFile' = saveState(stateFile, visited, queue, allPages)
  /\ UNCHANGED <<formVars, netVars, outVars, pageVars, stopVars, fnVars, crawlState, visited, queue, allPages, snap, accepted, diskFails,
                 listPos, completed>>

\* newStealthContext resolves (lines 102-115): the timer is set, crawlPages is called.
ContextOk ==
  /\ enginePc = "context"
  /\ enginePc' = "crawling"
  /\ UNCHANGED <<formVars, netVars, outVars, pageVars, stopVars, fnVars, crawlState, visited, queue, allPages, stateFile,
                 snap, accepted, diskFails,
                 listPos, completed>>

\* newStealthContext rejects: catch saves the state and rethrows.
ContextFail ==
  /\ enginePc = "context"
  /\ enginePc' = "failed"
  /\ stateFile' = saveState(stateFile, visited, queue, allPages)
  /\ UNCHANGED <<formVars, netVars, outVars, pageVars, stopVars, fnVars, crawlState, visited, queue, allPages, snap, accepted, diskFails,
                 listPos, completed>>

\* The interval timer of lines 109-113 fires while crawlPages is awaited.
TimerSave ==
  /\ enginePc = "crawling"
  /\ crawlPc \in {"start", "awaitIdle"}
  /\ stateFile' = saveState(stateFile, visited, queue, allPages)
  /\ enginePc' = IF Throws(SaveError) THEN "failed" ELSE enginePc
  /\ UNCHANGED <<formVars, netVars, outVars, pageVars, stopVars, fnVars, crawlState, visited, queue, allPages,
                 snap, accepted, diskFails,
                 listPos, completed>>

\* crawlPages has returned, generateOutputs resolves: markComplete, return
\* (lines 117-130).
OutputsOk ==
  /\ enginePc = "crawling"
  /\ crawlPc = "returned"
  /\ enginePc' = IF Throws(SaveError) THEN "failed" ELSE "returned"
  /\ stateFile' = markComplete(stateFile, visited, queue, allPages)
  /\ completed' = (autoResume \/ completed)
  /\ UNCHANGED <<formVars, netVars, outVars, pageVars, stopVars, fnVars, crawlState, visited, queue, allPages, snap,
                 accepted, diskFails, listPos>>

\* generateOutputs rejects: catch saves the state and rethrows.
OutputsFail ==
  /\ enginePc = "crawling"
  /\ crawlPc = "returned"
  /\ enginePc' = "failed"
  /\ stateFile' = saveState(stateFile, visited, queue, allPages)
  /\ UNCHANGED <<formVars, netVars, outVars, pageVars, stopVars, fnVars, crawlState, visited, queue, allPages, snap, accepted, diskFails,
                 listPos, completed>>

\* crawlPages and the page tasks run once start() has called crawlPages.
Crawling == enginePc = "crawling" /\ Next

InitEngine ==
  /\ threads = DefaultThreads
  /\ maxPages \in 1..MaxPagesBound
  /\ maxDepth \in 1..MaxDepthBound
  /\ autoResume \in BOOLEAN
  /\ crawlPc = "start"
  /\ pqueue = <<>>
  /\ tasks = EmptyBag
  /\ visited = {}
  /\ enqueued = {}
  /\ queue = <<>>
  /\ failed = {}
  /\ allPages = <<>>
  /\ stateFile \in SnapFiles
  /\ navigated = {}
  /\ ended = {}
  /\ ret = NoCall
  /\ NoForms
  /\ NoTraffic
  /\ NoOutput
  /\ NoFn
  /\ NoDetail
  /\ enginePc = "init"
  /\ snap = stateFile
  /\ accepted = FALSE
  /\ listPos = 1
  /\ completed = FALSE
  /\ diskFails = FALSE

NextEngine ==
  \/ InitializeOk
  \/ InitializeFail
  \/ ContextOk
  \/ ContextFail
  \/ TimerSave
  \/ Crawling
  \/ OutputsOk
  \/ OutputsFail

SpecEngine == InitEngine /\ [][NextEngine]_vars

\* ---- list mode (runCrawl, part_004 lines 450-476) --------------------------
\* CrawlEngine.resetForNextUrl, lines 255-292: visited, the queue and the
\* aggregate are emptied; enqueued, failed, submittedForms and
\* StateManager.state are not touched.
ResetForNextUrl ==
  /\ visited' = {}
  /\ queue' = <<>>
  /\ allPages' = <<>>

\* The for loop goes on after crawl(url) returned or threw: the reset is made
\* inside the try, after a crawl that returned, when a URL is left (lines
\* 461-470); the catch of lines 471-474 only logs. The next start() calls
\* crawlPages anew, with a new PQueue.
NextUrl ==
  /\ enginePc \in {"returned", "failed"}
  /\ listPos <= Len(UrlList)
  /\ listPos' = listPos + 1
  /\ IF listPos < Len(UrlList)
     THEN /\ enginePc' = "init"
          /\ crawlPc' = "start"
          /\ snap' = stateFile
          /\ accepted' = FALSE
          /\ IF enginePc = "returned" THEN ResetForNextUrl
             ELSE UNCHANGED <<visited, queue, allPages>>
     ELSE /\ enginePc' = "done"
          /\ UNCHANGED <<crawlPc, snap, accepted, visited, queue, allPages>>
  /\ UNCHANGED <<formVars, netVars, outVars, pageVars, stopVars, fnVars, cfgVars, pqueue,
                 tasks, enqueued, failed, navigated, ended, ret, stateFile, diskFails,
                 completed>>

\* runCrawl awaits initialize() before the loop, so the initialize() of
\* start() finds the browser manager and resolves.
NextList ==
  \/ InitializeOk
  \/ ContextOk
  \/ ContextFail
  \/ TimerSave
  \/ Crawling
  \/ OutputsOk
  \/ OutputsFail
  \/ NextUrl

SpecList == InitEngine /\ [][NextList]_vars

\* ---- the crawl with its snapshot timer -----------------------------------
\* start() from the call of crawlPages on, on a new engine: the page tasks,
\* the timer of lines 109-113, and the two ends of start().
NextTimer ==
  \/ Crawling
  \/ TimerSave
  \/ OutputsOk
  \/ OutputsFail

SpecTimer == Init /\ [][NextTimer]_vars

\* ---- a request to stop --------------------------------------------------
\* The caller asks for the crawl to stop while crawlPages awaits onIdle.
\* CrawlEngine and PageProcessor have no method and no flag for it: the
\* request changes nothing they read.
RequestStop ==
  /\ crawlPc = "awaitIdle"
  /\ ~stopRequested
  /\ stopRequested' = TRUE
  /\ UNCHANGED <<formVars, netVars, engineVars, outVars, pageVars, fnVars, crawlState, visited,
                 queue, allPages, stateFile>>

NextStop ==
  \/ Next
  \/ RequestStop

SpecStop == Init /\ [][NextStop]_vars

\* ---- persistence errors ---------------------------------------------------
\* The file system starts or stops failing.
DiskChange ==
  /\ diskFails' = ~diskFails
  /\ UNCHANGED <<formVars, netVars, outVars, pageVars, stopVars, fnVars, crawlState, visited, queue, allPages, stateFile,
                 enginePc, snap, accepted,
                 listPos, completed>>

InitPersist ==
  /\ threads = DefaultThreads
  /\ maxPages \in 1..MaxPagesBound
  /\ maxDepth \in 1..MaxDepthBound
  /\ autoResume = TRUE
  /\ crawlPc = "start"
  /\ pqueue = <<>>
  /\ tasks = EmptyBag
  /\ visited = {}
  /\ enqueued = {}
  /\ queue = <<>>
  /\ failed = {}
  /\ allPages = <<>>
  /\ stateFile \in SnapFiles
  /\ navigated = {}
  /\ ended = {}
  /\ ret = NoCall
  /\ NoForms
  /\ NoTraffic
  /\ NoOutput
  /\ NoFn
  /\ NoDetail
  /\ enginePc = "init"
  /\ snap = stateFile
  /\ accepted = FALSE
  /\ listPos = 1
  /\ completed = FALSE
  /\ diskFails \in BOOLEAN

\* start() when the browser and the output files do not fail: the only errors
\* are those of the state file.
NextPersist ==
  \/ InitializeOk
  \/ ContextOk
  \/ TimerSave
  \/ Crawling
  \/ OutputsOk
  \/ DiskChange

SpecPersist == InitPersist /\ [][NextPersist]_vars

\* start() goes on once what it awaits has settled
FairSpecPersist ==
  SpecPersist /\ WF_vars(InitializeOk \/ ContextOk \/ Crawling \/ OutputsOk)

\* ---- StateManager.restoreResults by itself (lines 175-206) ----------------
\* The elements of a sequence.
Range(seq) == {seq[k] : k \in DOMAIN seq}

\* resultManager.addSecret(secret) for each saved secret (ResultManager.js
\* line 35: push).
RECURSIVE AddSecrets(_, _)
AddSecrets(allSecrets, saved) ==
  IF saved = <<>> THEN allSecrets
  ELSE AddSecrets(Append(allSecrets, Head(saved)), Tail(saved))

\* resultManager.addEndpoint(ep) for each saved endpoint (Set.add).
RECURSIVE AddEndpoints(_, _)
AddEndpoints(allEndpoints, saved) ==
  IF saved = <<>> THEN allEndpoints
  ELSE AddEndpoints(allEndpoints \cup {Head(saved)}, Tail(saved))

\* restoreResults on the whole aggregate rm, results being state.results.
RestoreAggregate(rm, results) ==
  [pages |-> restoreResults(rm.pages, results),
   requests |-> IF Len(results.requests) > 0 THEN results.requests ELSE rm.requests,
   endpoints |-> IF Len(results.endpoints) > 0
                 THEN AddEndpoints(rm.endpoints, results.endpoints) ELSE rm.endpoints,
   secrets |-> IF Len(results.secrets) > 0
               THEN AddSecrets(rm.secrets, results.secrets) ELSE rm.secrets,
   forms |-> IF Len(results.forms) > 0 THEN results.forms ELSE rm.forms,
   technologies |-> IF Len(results.technologies) > 0
                    THEN results.technologies ELSE rm.technologies]

\* Aggregates before the call, and saved results.
Aggregates ==
  [pages : {<<>>, <<"p0">>}, requests : {<<>>, <<"r0">>}, endpoints : {{}, {"e0"}},
   secrets : {<<>>, <<"k0">>}, forms : {<<>>, <<"f0">>}, technologies : {<<>>, <<"t0">>}]

SavedResults ==
  [pages : {<<>>, <<"p1">>}, requests : {<<>>, <<"r1">>},
   endpoints : {<<>>, <<"e0">>, <<"e1">>},
   secrets : {<<>>, <<"k1">>}, forms : {<<>>, <<"f1">>}, technologies : {<<>>, <<"t1">>}]

\* restoreResults(resultManager) is called.
DoRestoreResults ==
  /\ call.op = "args"
  /\ call' = [op |-> "restoreResults", rm |-> call.rm, results |-> call.results,
              out |-> RestoreAggregate(call.rm, call.results)]
  /\ UNCHANGED <<formVars, netVars, engineVars, outVars, pageVars, stopVars, crawlState,
                 visited, queue, allPages, stateFile>>

InitRestore ==
  /\ threads = 1
  /\ maxPages = 1
  /\ maxDepth = 1
  /\ autoResume = TRUE
  /\ crawlPc = "start"
  /\ pqueue = <<>>
  /\ tasks = EmptyBag
  /\ visited = {}
  /\ enqueued = {}
  /\ queue = <<>>
  /\ failed = {}
  /\ allPages = <<>>
  /\ stateFile = NoFile
  /\ navigated = {}
  /\ ended = {}
  /\ ret = NoCall
  /\ NoForms
  /\ NoTraffic
  /\ NoEngine
  /\ NoOutput
  /\ NoDetail
  /\ call \in [op : {"args"}, rm : Aggregates, results : SavedResults]

SpecRestore == InitRestore /\ [][DoRestoreResults]_vars

\* ---- a snapshot written and read back (StateManager.js) -------------------
\* Array.from(set): the elements of the set, one after the other.
RECURSIVE ArrayFrom(_)
ArrayFrom(S) ==
  IF S = {} THEN <<>>
  ELSE LET x == CHOOSE y \in S : TRUE
       IN <<x>> \o ArrayFrom(S \ {x})

\* this.state of a new StateManager after init(url), lines 13-26 and 34-50.
FreshState(url) ==
  [url |-> url, visited |-> <<>>, queue |-> <<>>,
   results |-> [pages |-> <<>>, requests |-> <<>>, endpoints |-> <<>>,
                secrets |-> <<>>, forms |-> <<>>, technologies |-> <<>>],
   completed |-> FALSE]

\* A queue snapshot that stores depth 0 for every task.
QueueSnapshot_NoDepth(q) == [k \in 1..Len(q) |-> [url |-> q[k].url, depth |-> 0]]

\* saveState, lines 87-90: the queue as {url, depth}.
QueueSnapshot(q) == [k \in 1..Len(q) |-> [url |-> q[k].url, depth |-> q[k].depth]]

\* saveState, lines 85-101: the state written for the managers qm and rm.
WrittenState(url, qm, rm) ==
  [FreshState(url) EXCEPT
     !.visited = ArrayFrom(qm.visited),
     !.queue = QueueSnapshot(qm.queue),
     !.results = [pages |-> rm.pages, requests |-> rm.requests,
                  endpoints |-> ArrayFrom(rm.endpoints), secrets |-> rm.secrets,
                  forms |-> rm.forms, technologies |-> rm.technologies]]

\* loadState of a StateManager initialised for target, lines 60-71: the file
\* replaces this.state when it was written for the same URL.
LoadedState(file, target) ==
  IF file.url = target THEN file ELSE FreshState(target)

\* start(), lines 93-99, on new managers: restoreVisited, restoreResults and
\* restoreQueue, whose non-empty result becomes the queue.
RestoredManagers(st) ==
  LET vis == restoreVisited({}, [visited |-> Range(st.visited)])
      fresh == FreshState(st.url).results
  IN [visited |-> vis,
      queue |-> restoreQueue(vis, st),
      rm |-> RestoreAggregate([fresh EXCEPT !.endpoints = {}], st.results)]

\* The queues saved: up to MaxTasks tasks.
MaxTasks == 2
SavedQueues ==
  UNION {[1..n -> [url : URLs, depth : Depths, referer : {""}]] : n \in 0..MaxTasks}

DoSaveState ==
  /\ call.op = "args"
  /\ call' = [call EXCEPT !.op = "saved",
                          !.file = WrittenState(call.url, call.qm, call.rm)]
  /\ UNCHANGED <<formVars, netVars, engineVars, outVars, pageVars, stopVars, crawlState,
                 visited, queue, allPages, stateFile>>

DoLoadState ==
  /\ call.op = "saved"
  /\ call' = [call EXCEPT !.op = "loaded",
                          !.loaded = call.file.url = call.target,
                          !.state = LoadedState(call.file, call.target)]
  /\ UNCHANGED <<formVars, netVars, engineVars, outVars, pageVars, stopVars, crawlState,
                 visited, queue, allPages, stateFile>>

DoRestoreAll ==
  /\ call.op = "loaded"
  /\ call.loaded
  /\ call' = [call EXCEPT !.op = "restored", !.out = RestoredManagers(call.state)]
  /\ UNCHANGED <<formVars, netVars, engineVars, outVars, pageVars, stopVars, crawlState,
                 visited, queue, allPages, stateFile>>

InitRoundTrip ==
  /\ threads = 1
  /\ maxPages = 1
  /\ maxDepth = 1
  /\ autoResume = TRUE
  /\ crawlPc = "start"
  /\ pqueue = <<>>
  /\ tasks = EmptyBag
  /\ visited = {}
  /\ enqueued = {}
  /\ queue = <<>>
  /\ failed = {}
  /\ allPages = <<>>
  /\ stateFile = NoFile
  /\ navigated = {}
  /\ ended = {}
  /\ ret = NoCall
  /\ NoForms
  /\ NoTraffic
  /\ NoEngine
  /\ NoOutput
  /\ NoDetail
  /\ call \in [op : {"args"}, url : {Seed}, target : {Seed, "s/p"},
                qm : [visited : SUBSET URLs, queue : SavedQueues], rm : Aggregates,
                file : {FreshState(Seed)}, loaded : {FALSE}, state : {FreshState(Seed)},
                out : {RestoredManagers(FreshState(Seed))}]

NextRoundTrip == DoSaveState \/ DoLoadState \/ DoRestoreAll

SpecRoundTrip == InitRoundTrip /\ [][NextRoundTrip]_vars

\* ==== the claims ===========================================================
PagesFor(u) == Cardinality({k \in 1..Len(allPages) : allPages[k].url = u})

\* The step in which the job t calls page.goto, and the step in which it ends.
Navigates(t) ==
  /\ t.pc = "newPage"
  /\ CopiesIn(t, tasks') < CopiesIn(t, tasks)

Ends(t) ==
  /\ t.pc = "wait"
  /\ CopiesIn(t, tasks') < CopiesIn(t, tasks)

\* C1: within one crawl every URL is navigated to at most once and has at most
\* one PageRecord, for every interleaving of the page tasks.
C1_OneTaskPerUrl ==
  [][/\ \A t \in BagToSet(tasks) : Navigates(t) => t.url \notin navigated
     /\ \A u \in URLs : PagesFor(u)' <= 1]_vars

\* C2: after any sequence of add, getNext, addVisited, addFailed no URL is both
\* in visited and in enqueued.
C2_VisitedEnqueuedDisjoint == visited \cap enqueued = {}

\* C3: add on a URL in visited or enqueued returns false and changes nothing;
\* on any other URL it returns true, appends exactly the task {url, depth,
\* referer} to the pending list and inserts url into enqueued, nothing else.
C3_AddFrame ==
  [][ret'.op = "add" =>
       LET url == ret'.item.url
       IN IF url \in visited \/ url \in enqueued
          THEN /\ ret'.ok = FALSE
               /\ UNCHANGED <<queue, enqueued, visited, failed>>
          ELSE /\ ret'.ok = TRUE
               /\ queue' = Append(queue, ret'.item)
               /\ enqueued' = enqueued \cup {url}
               /\ UNCHANGED <<visited, failed>>]_vars

\* C3 witness: an add has just been rejected for a URL that is visited and not
\* enqueued, while a task accepted earlier is still pending.
C3_Witness ==
  /\ ret.op = "add" /\ ~ret.ok
  /\ ret.item.url \in visited \ enqueued
  /\ queue # <<>>

\* C4: when a page task for u has ended, committed or failed, u is in visited
\* and u is never navigated to again.
C4_EndedVisitedNeverRetried ==
  [][\A t \in BagToSet(tasks) :
       /\ Ends(t) => t.url \in visited'
       /\ Navigates(t) => t.url \notin ended]_vars

\* C5: every PageRecord has 0 <= depth <= maxDepth; no job deeper than maxDepth
\* is ever in flight with a page, and a waiting job is at most one level deeper.
C5_DepthBound ==
  /\ \A k \in 1..Len(allPages) : allPages[k].depth >= 0 /\ allPages[k].depth <= maxDepth
  /\ \A t \in BagToSet(tasks) : t.depth >= 0 /\ t.depth <= maxDepth
  /\ \A k \in 1..Len(pqueue) : pqueue[k].depth >= 1 /\ pqueue[k].depth <= maxDepth + 1

\* C5 witness: a job deeper than maxDepth waits to be dropped while pages at
\* depth 0 and at depth maxDepth are recorded.
C5_Witness ==
  /\ \E k \in 1..Len(pqueue) : pqueue[k].depth > maxDepth
  /\ \E k \in 1..Len(allPages) : allPages[k].depth = maxDepth
  /\ \E k \in 1..Len(allPages) : allPages[k].depth = 0

\* C6: the number of PageRecords never exceeds maxPages + threads - 1 (so with
\* threads = 1 it never exceeds maxPages).
C6_PageBudget == Len(allPages) <= maxPages + threads - 1

\* C6 witness: the soft bound is reached with concurrent tasks.
C6_Witness == threads >= 2 /\ Len(allPages) = maxPages + threads - 1

\* C7: at most `threads` page tasks are in flight at any moment.
C7_ConcurrencyBound == BagCardinality(tasks) <= threads

\* C7 witness: all slots are taken and a job has to wait.
C7_Witness == threads >= 2 /\ BagCardinality(tasks) = threads /\ pqueue # <<>>

NavFailedStep ==
  \/ \E t \in BagToSet(tasks') : t.err = "nav" /\ CopiesIn(t, tasks') > CopiesIn(t, tasks)
  \/ \E t \in BagToSet(tasks) : t.err = "nav" /\ CopiesIn(t, tasks') < CopiesIn(t, tasks)

IsSuffix(s, q) == Len(s) <= Len(q) /\ s = SubSeq(q, Len(q) - Len(s) + 1, Len(q))

C9_NavFailureIsolated ==
  [][NavFailedStep =>
       /\ allPages' = allPages
       /\ visited' = visited
       /\ stateFile' = stateFile
       /\ IsSuffix(pqueue', pqueue)
       /\ \A t \in BagToSet(tasks) :
            t.err # "nav" /\ t.pc # "goto" => CopiesIn(t, tasks') >= CopiesIn(t, tasks)
       /\ \A t \in BagToSet(tasks') :
            t.err = "nav" => ~t.committed /\ (t.pc = "wait" => t.page = "closed")]_vars

\* C9 witness: a task whose navigation failed has closed its page while another
\* task is in flight and snapshots are enabled.
C9_Witness ==
  /\ autoResume
  /\ BagCardinality(tasks) >= 2
  /\ \E t \in BagToSet(tasks) : t.err = "nav" /\ t.pc = "wait" /\ t.page = "closed"

\* C10: once navigation has succeeded, a task that has reached its end has
\* appended its PageRecord and marked its URL visited, whatever later stage
\* failed.
C10_LaterFailuresAbsorbed ==
  \A t \in BagToSet(tasks) :
    t.pc \in {"close", "wait"} /\ t.err # "nav" =>
      t.committed /\ t.url \in visited /\ PagesFor(t.url) >= 1

\* C11: once a form has been submitted, fillAndSubmitForm is not called again
\* for a form with the same method and the same field signature, on any page.
C11_NoSecondSubmission ==
  [][\A f \in fills' \ fills :
       \A r \in reports :
         r.submitted => ~(r.key[1] = f.key[1] /\ r.key[3] = f.key[3])]_vars

\* C12: of the page tasks that discover a form with the same key
\* method:action:sig, at most one fills and submits it.
C12_AtomicCheckAndSet ==
  \A f, g \in fills : f.key = g.key => f.page = g.page

\* C13: fillAndSubmitForm reports submitted = true exactly when a submit
\* control was clicked.
C13_SubmittedIffClicked ==
  \A r \in reports : r.submitted <=> r.clicked

\* C14: with sameOrigin enabled and subdomain inclusion disabled, every link
\* let through to the queue and every recorded request has the seed's origin
\* (and so the seed's host).
C14_ScopeFilter ==
  sameOrigin /\ ~includeSubdomains =>
    /\ \A u \in scopeQueue : u.origin = SeedUrl.origin /\ u.host = SeedUrl.host
    /\ \A i \in 1..Len(requests) :
         requests[i].url.origin = SeedUrl.origin /\ requests[i].url.host = SeedUrl.host

\* C14 witness: links of a subdomain and of the seed's host under another
\* scheme were dropped, a foreign request was sent, and links and requests of
\* the seed's origin were kept.
C14_Witness ==
  /\ sameOrigin /\ ~includeSubdomains
  /\ scopeQueue # {}
  /\ requests # <<>>
  /\ \E u \in rejected : u.host = SeedUrl.host
  /\ \E u \in rejected : Len(u.host) > 1
  /\ \E k \in BagToSet(awaiting) : k.url = ForeignUrl

\* The tasks scheduled and not yet started: those QueueManager holds and those
\* waiting in the queue of crawlPages.
PendingTasks ==
  [k \in 1..Len(queue) |-> [url |-> queue[k].url, depth |-> queue[k].depth]] \o pqueue

\* C15: after resuming from an accepted snapshot, visited is a superset of the
\* snapshot's visited set and no PageRecord is appended for a URL of that set.
C15_ResumeKeepsVisited ==
  accepted =>
    /\ snap.visited \subseteq visited
    /\ \A k \in (Len(snap.pages) + 1)..Len(allPages) : allPages[k].url \notin snap.visited

\* C15 witness: a resumed crawl has appended a page after the restored ones.
C15_Witness ==
  /\ accepted
  /\ snap.visited # {}
  /\ Len(allPages) > Len(snap.pages)
  /\ enginePc = "returned"

\* A restored task has been run, or the admission test rejects it.
RunOrDropped(item) == item.url \in navigated \/ ~Admit(item)

\* C16: after a restart that accepts a snapshot, every restored pending task
\* is eventually run or dropped by the admission test (unless start() fails).
C16_RestoredWorkRuns ==
  (accepted /\ enginePc = "crawling")
    ~> (enginePc = "failed" \/ \A k \in 1..Len(queue) : RunOrDropped(queue[k]))

\* C17: every snapshot written records as its pending list exactly the tasks
\* scheduled and not yet started at that moment.
C17_SnapshotPending ==
  [][stateFile' # stateFile /\ stateFile'.exists => stateFile'.queue = PendingTasks']_vars

\* C18: with autoResume, after start() has returned no snapshot file exists;
\* after start() has failed once the crawl had begun, the file holds the state
\* at the time of the failure.
C18_SnapshotLifecycle ==
  autoResume =>
    /\ enginePc = "returned" => ~stateFile.exists
    /\ enginePc = "failed" /\ crawlPc # "start" =>
         /\ stateFile.exists /\ stateFile.readable /\ stateFile.url = Seed
         /\ stateFile.visited = visited
         /\ stateFile.pages = allPages
         /\ stateFile.queue = PendingTasks

\* C18 witness: start() has failed after a crawl that recorded a page.
C18_Witness ==
  /\ autoResume
  /\ enginePc = "failed"
  /\ crawlPc = "returned"
  /\ Len(allPages) >= 1

\* C19: loadState accepts a snapshot only when its stored URL is the target;
\* otherwise the crawl starts from empty visited, pending and result state.
C19_LoadStateExactUrl ==
  enginePc = "context" =>
    /\ accepted => snap.exists /\ snap.readable /\ snap.url = Seed
    /\ ~accepted => visited = {} /\ queue = <<>> /\ allPages = <<>>

\* C19 witness: the snapshot of another URL of the same host was not accepted.
C19_Witness ==
  /\ enginePc = "context"
  /\ autoResume /\ ~accepted
  /\ snap.exists /\ snap.readable /\ snap.url # Seed /\ snap.visited # {}

\* The stored requests with the url and the method of request i.
SameKey(i) == Matching([url |-> requests[i].url, method |-> requests[i].method])

\* C21: a captured request that is the only one for its (url, method) and has
\* its response is exported with the status of that response.
C21_ExportedWithResponse ==
  [][outPc = "capturing" /\ outPc' = "generated" =>
       \A i \in DOMAIN requests :
         SameKey(i) = {i} /\ requests[i].id \in DOMAIN responses =>
           \E k \in DOMAIN exported' :
             /\ exported'[k].endpoint = requests[i].url
             /\ exported'[k].method = requests[i].method
             /\ exported'[k].status_code = responses[requests[i].id]]_vars

\* C22: at flush, when a non-asset request was captured, the one of greatest
\* score, the first of them, is written as the representative.
C22_BestRepresentative ==
  [][outPc = "generated" /\ outPc' = "flushed" =>
       LET captured == SelectSeq(requests, LAMBDA r : ~IsAsset(r.url))
       IN Len(captured) > 0 =>
            httpRaw'.written /\ httpRaw'.request = Best(captured)]_vars

\* C23: the ids of the requests in the aggregate increase strictly in the
\* order of capture, so no two share an id.
C23_IdsIncrease ==
  \A i, j \in DOMAIN allRequests : i < j => allRequests[i].id < allRequests[j].id

\* C24: an error of the state file never reaches the crawl: start() does not
\* fail, the failed call changes neither the scheduler nor the aggregate, and
\* the crawl reaches its normal end.
C24_PersistenceErrorsAbsorbed ==
  /\ [](enginePc # "failed")
  /\ [][/\ enginePc = "init" /\ enginePc' # "init" /\ LoadError(stateFile) =>
             ~accepted' /\ UNCHANGED <<visited, queue, allPages, pqueue, tasks>>
        /\ enginePc = "crawling" /\ enginePc' # "crawling" /\ SaveError =>
             UNCHANGED <<visited, queue, allPages, pqueue, tasks>>
        /\ Len(allPages') > Len(allPages) /\ SaveError =>
             /\ visited' = visited \cup {allPages'[Len(allPages')].url}
             /\ UNCHANGED <<queue, pqueue, failed, enginePc>>]_vars
  /\ <>(enginePc = "returned")

\* C24 witness: the snapshot of the target could not be read, a page was
\* crawled, and start() has returned while the file system fails.
C24_Witness ==
  /\ enginePc = "returned"
  /\ diskFails
  /\ snap.exists /\ snap.readable /\ snap.url = Seed
  /\ ~accepted
  /\ Len(allPages) >= 1
  /\ stateFile = snap

\* C27: getNext returns no URL that is in visited or in failed when it is
\* called, marks the URL it returns visited and takes it out of enqueued, so it
\* returns a URL at most once; it returns null exactly when no task of the
\* queue is eligible.
C27_GetNextEligible ==
  [][/\ visited \subseteq visited'
     /\ ret'.op = "getNext" =>
          LET Eligible == {k \in 1..Len(queue) : queue[k].url \notin visited \cup failed}
          IN IF ret'.item = NullItem
             THEN Eligible = {}
             ELSE /\ \E k \in Eligible : queue[k] = ret'.item
                  /\ ret'.item.url \in visited'
                  /\ ret'.item.url \notin enqueued']_vars

\* C27 witness: getNext has returned a task while another URL was in failed.
C27_Witness ==
  /\ ret.op = "getNext"
  /\ ret.item # NullItem
  /\ failed # {}
  /\ ret.item.url \notin failed

\* C28: in every snapshot the URL of every PageRecord is in the snapshot's
\* visited list.
C28_SnapshotPagesVisited ==
  stateFile.exists =>
    \A k \in 1..Len(stateFile.pages) : stateFile.pages[k].url \in stateFile.visited

\* C28 witness: a snapshot holds a page while another page task is about to
\* commit.
C28_Witness ==
  /\ stateFile.exists
  /\ Len(stateFile.pages) >= 1
  /\ \E t \in BagToSet(tasks) : t.pc = "title"

\* C26: once a stop has been requested no pending task starts, a task in
\* flight starts no further stage (it only closes its page and ends), and no
\* page is recorded.
C26_StopDrains ==
  [][stopRequested =>
       /\ \A t \in BagToSet(tasks') \ BagToSet(tasks) : t.pc \in {"close", "wait"}
       /\ navigated' = navigated]_vars

\* The stages the page task has begun, in the order it began them.
StagesBegun == SelectSeq(pageTask.trace, LAMBDA e : e.ev = "start")

\* The stages in the stated order.
StatedOrder ==
  <<"navigate", "settle", "tech", "jsChunks", "forms", "endpoints", "secrets",
    "scroll", "click", "spa", "links", "enqueue", "commit">>

StatedIndex(s) == CHOOSE i \in DOMAIN StatedOrder : StatedOrder[i] = s

StatedBegun == SelectSeq(StagesBegun, LAMBDA e : e.stage # "captcha")

\* C25: every page task terminates, whatever the page: the scroll step ends
\* on a page whose height grows with every scroll, and a script fetch that is
\* never answered does not hold the task forever.
C25_PageTaskTerminates == <>(pageTask.stage = "done")

\* C29: the poll loop of _waitForAJAXCompletion always ends, and it ends at
\* the first of: a read of 0 (settled), StallLimit consecutive reads equal to
\* the non-zero value read before (stalled), maxWait used up (timed out); it
\* goes on only while none of these holds, and a read of a changed value sets
\* the stall count to 0.
C29_PollLoopEnds ==
  /\ (pageTask.sub = "wait") ~> (pageTask.sub # "wait")
  /\ [][pageTask.sub = "wait" /\ pageTask'.ajax # "error" =>
          LET r == pageTask'.reads
              n == Len(r)
              polled == n > 0 /\ (Len(pageTask.reads) < StallLimit + 1 => n = Len(pageTask.reads) + 1)
                              /\ pageTask.elapsed < MaxWaitPolls
              same == /\ n = StallLimit + 1
                      /\ \A k \in 1..n : r[k] = r[n]
          IN /\ pageTask'.ajax \in {"polling", "settled", "stalled", "timedOut"}
             /\ pageTask'.ajax = "polling" <=> pageTask'.sub = "wait"
             /\ pageTask'.ajax = "settled" <=> polled /\ r[n] = 0
             /\ pageTask'.ajax = "stalled" <=> polled /\ r[n] # 0 /\ same
             /\ pageTask'.ajax = "timedOut" <=> pageTask.elapsed >= MaxWaitPolls
             /\ pageTask'.ajax = "timedOut" => r = pageTask.reads
             /\ pageTask'.sub = "wait" =>
                  /\ pageTask'.elapsed > pageTask.elapsed
                  /\ pageTask'.lastActiveCount = r[n]
                  /\ (n = 1 \/ r[n] # r[n - 1]) => pageTask'.stallCount = 0
                  /\ (n > 1 /\ r[n] = r[n - 1]) => pageTask'.stallCount = pageTask.stallCount + 1]_vars

\* the loop goes on after a read of a changed value has reset the count
C29_Witness ==
  /\ pageTask.sub = "wait"
  /\ pageTask.stallCount = 0
  /\ Len(pageTask.reads) >= 3
  /\ pageTask.reads[Len(pageTask.reads) - 1] = pageTask.reads[Len(pageTask.reads) - 2]
  /\ pageTask.reads[Len(pageTask.reads)] # pageTask.reads[Len(pageTask.reads) - 1]

\* C30: the stages of a page task begin in the stated order, each only after
\* the stage before it has ended; a task that commits has run every stage its
\* configuration runs; the commit (page appended, URL visited, snapshot
\* written) is the last stage and nothing of it happens earlier.
C30_StagesInOrder ==
  LET tr == pageTask.trace
  IN /\ tr[1] = [stage |-> "navigate", ev |-> "start"]
     /\ \A k \in 2..Len(tr) :
          /\ tr[k].ev = "start" =>
               /\ tr[k - 1] = [stage |-> tr[k - 2].stage, ev |-> "end"]
               /\ tr[k - 2].ev = "start"
          /\ tr[k].ev \in {"end", "failed"} =>
               tr[k - 1] = [stage |-> tr[k].stage, ev |-> "start"]
          /\ tr[k].ev = "failed" \/ tr[k].stage = "commit" =>
               \A m \in (k + 1)..Len(tr) : tr[m].ev # "start"
     /\ \A i \in 1..(Len(StatedBegun) - 1) :
          StatedIndex(StatedBegun[i].stage) < StatedIndex(StatedBegun[i + 1].stage)
     /\ pageTask.stage = "commit" =>
          StatedBegun = [k \in DOMAIN SelectSeq(StatedOrder, LAMBDA s : Runs(s, pageDom)) |->
                             [stage |-> SelectSeq(StatedOrder, LAMBDA s : Runs(s, pageDom))[k],
                              ev |-> "start"]]
     /\ IF tr[Len(tr)] = [stage |-> "commit", ev |-> "end"]
        THEN /\ allPages = <<[url |-> SeedUrl, depth |-> 0]>>
             /\ SeedUrl \in visited
             /\ stateFile # NoFile
             /\ SeedUrl \in stateFile.visited
        ELSE /\ allPages = <<>>
             /\ visited = {}
             /\ stateFile = NoFile

\* a task that has run every stage, the AJAX settling included, and committed
C30_Witness ==
  /\ pageTask.stage = "done"
  /\ Len(StagesBegun) = Len(StageOrder)
  /\ pageTask.ajax = "settled"
  /\ Len(allPages) = 1

\* C31: once the enqueue loop of a page task has run, every URL that came in
\* a JSON response during the visit has been put through the loop's filters,
\* and every such URL that passes the scope filter, the extension filter and
\* the page budget is in the queue of the scheduler at depth + 1.
C31_JsonUrlsEnqueued ==
  pageTask.stage = "commit" =>
    \A u \in pageTask.received :
      /\ \E i \in DOMAIN pageTask.links : pageTask.links[i] = u
      /\ ScopeAllows(u) /\ LinkExt(u) \notin BlockedExtensions =>
           \E i \in DOMAIN pqueue : pqueue[i] = [url |-> u, depth |-> 1]

\* C32: with deep JS analysis enabled, JS-chunk analysis is begun only by
\* the 1st, 4th, 7th, ... page task of the crawl.
C32_ChunksEveryThirdPage ==
  pageDom.deepJSAnalysis /\ pageTask.stage = "jsChunks" => pageTask.ordinal % 3 = 1

\* The links the filters of the enqueue loop let through (lines 149-157).
LinkFilter(u) == ScopeAllows(u) /\ LinkExt(u) \notin BlockedExtensions

\* C33: whatever sameOrigin and includeSubdomains are, a request is recorded
\* if and only if the link filter lets its URL through.
C33_SameFilters ==
  [][\A u \in NetURLs :
       sent' = sent + 1 /\ awaiting' = awaiting (+) One([url |-> u, method |-> "GET"]) =>
         (Len(requests') = Len(requests) + 1 <=> LinkFilter(u))]_vars

\* C34: after restoreResults every array of the aggregate is the saved array
\* when that is non-empty and is unchanged when it is empty, and the endpoint
\* set is the union of what it held and the saved endpoints, whatever the
\* aggregate held before.
C34_RestoreResults ==
  call.op = "restoreResults" =>
    /\ \A f \in {"pages", "requests", "secrets", "forms", "technologies"} :
         call.out[f] = IF call.results[f] # <<>> THEN call.results[f] ELSE call.rm[f]
    /\ call.out.endpoints = call.rm.endpoints \cup Range(call.results.endpoints)

\* The number of inputs a field signature lists (fillAndSubmitForm counts the
\* fields it filled, lines 139-219).
FieldsIn(sig) == IF sig = "f1" THEN 1 ELSE 2

RECURSIVE SumFields(_)
SumFields(S) ==
  IF S = {} THEN 0
  ELSE LET x == CHOOSE y \in S : TRUE
       IN FieldsIn(x.key[3]) + SumFields(S \ {x})

\* processForm's return value for page p: totalFieldsProcessed, line 122.
fieldsProcessed(p) == SumFields({r \in reports : r.page = p /\ r.submitted})

\* The first container of the document with the field signature sig.
FirstWithSig(dom, sig) ==
  dom[CHOOSE i \in 1..Len(dom) :
        dom[i].sig = sig /\ \A j \in 1..(i - 1) : dom[j].sig # sig]

\* C35: on one page, of the form candidates with the same field signature only
\* the first in document order is filled and submitted; the later ones are
\* skipped and add nothing to fieldsProcessed.
C35_FirstOfSignatureOnly ==
  \A p \in URLs :
    /\ \A f \in fills :
         f.page = p =>
           LET c == FirstWithSig(formDom[p], f.key[3])
           IN f.key = <<c.method, IF c.action = "" THEN p ELSE c.action, c.sig>>
    /\ \A f, g \in fills : f.page = p /\ g.page = p /\ f.key[3] = g.key[3] => f = g
    /\ formTask[p].pc = "done" =>
         fieldsProcessed(p) =
           SumFields({[key |-> <<"", "", sig>>] :
                        sig \in {f.key[3] : f \in {g \in fills : g.page = p}}})

\* A page with two different containers of one signature, whose scan ended
\* after the first was filled and submitted.
C35_Witness ==
  \E p \in URLs :
    /\ Len(formDom[p]) >= 2
    /\ formDom[p][1].sig = formDom[p][2].sig
    /\ formDom[p][1] # formDom[p][2]
    /\ formTask[p].pc = "done"
    /\ \E r \in reports : r.page = p /\ r.key[3] = formDom[p][1].sig
    /\ fieldsProcessed(p) >= 1

\* C36: a snapshot saved and loaded for the same URL, restored into new
\* managers, gives back the visited set, the page, request, form, technology
\* and secret lists, the endpoint set, and the url and depth of every queued
\* task whose URL is not visited.
C36_RoundTrip ==
  call.op = "restored" /\ call.target = call.url =>
    /\ call.out.visited = call.qm.visited
    /\ call.out.rm = call.rm
    /\ call.out.queue =
         [k \in 1..Len(SelectSeq(call.qm.queue, LAMBDA t : t.url \notin call.qm.visited)) |->
            LET t == SelectSeq(call.qm.queue, LAMBDA x : x.url \notin call.qm.visited)[k]
            IN [url |-> t.url, depth |-> t.depth]]

\* A round trip of a manager with a visited URL, a queued task of depth 1 that
\* is not visited, one that is, and an endpoint.
C36_Witness ==
  /\ call.op = "restored"
  /\ call.target = call.url
  /\ call.qm.visited # {}
  /\ call.rm.endpoints # {}
  /\ call.rm.secrets # <<>>
  /\ \E k \in 1..Len(call.qm.queue) :
       call.qm.queue[k].depth = 1 /\ call.qm.queue[k].url \notin call.qm.visited
  /\ \E k \in 1..Len(call.qm.queue) : call.qm.queue[k].url \in call.qm.visited

\* The tasks of the manager qm that are pending: queued, their URL neither
\* visited nor failed.
PendingIn(qm) ==
  {qm.queue[i] : i \in {j \in 1..Len(qm.queue) :
                          qm.queue[j].url \notin qm.visited \cup qm.failed}}

\* The position of the call of add that queued url.
AddedAt(url) ==
  CHOOSE k \in 1..Len(call.added) :
    call.added[k] = url /\ \A j \in (k + 1)..Len(call.added) : call.added[j] # url

\* C37: getNext returns a pending task of minimal depth and, among the pending
\* tasks of that depth, the one added first; it returns null only when no task
\* is pending.
C37_BreadthFirst ==
  call.op = "getNext" =>
    IF PendingIn(call.before) = {}
    THEN call.item = NullItem
    ELSE /\ call.item \in PendingIn(call.before)
         /\ \A t \in PendingIn(call.before) :
              /\ call.item.depth <= t.depth
              /\ t.depth = call.item.depth => AddedAt(call.item.url) <= AddedAt(t.url)

\* getNext chose between two pending tasks of one depth after a sort that
\* moved a shallower task, added later, in front of them.
C37_Witness ==
  /\ call.op = "getNext"
  /\ call.item # NullItem
  /\ \E t \in PendingIn(call.before) : t # call.item /\ t.depth = call.item.depth
  /\ \E k \in 1..Len(call.added) : k > AddedAt(call.item.url) /\ call.added[k] \in visited

\* C38: a snapshot with completed = true is written only by the markComplete
\* of a crawl that returned; every snapshot written by another step of a
\* crawl, in list mode too, has completed = false.
C38_CompletedOnlyAtTheEnd ==
  [][stateFile' # stateFile /\ stateFile'.exists /\ stateFile'.completed =>
       enginePc = "crawling" /\ crawlPc = "returned" /\ enginePc' = "returned"]_vars

\* C39: in list mode each crawl after the first starts with an empty visited
\* set, an empty queue, empty enqueued and failed sets, an empty aggregate and
\* an empty set of submitted forms, whether the crawl before it returned or
\* threw.
C39_FreshStart ==
  listPos > 1 /\ enginePc = "init" =>
    /\ visited = {}
    /\ queue = <<>>
    /\ enqueued = {}
    /\ failed = {}
    /\ allPages = <<>>
    /\ submittedForms = {}

\* The browser pages that are open: the jobs between newPage and close.
RECURSIVE CountOpen(_, _)
CountOpen(S, tk) ==
  IF S = {} THEN 0
  ELSE LET t == CHOOSE x \in S : TRUE
       IN (IF t.page = "open" THEN CopiesIn(t, tk) ELSE 0) + CountOpen(S \ {t}, tk)

OpenPages(tk) == CountOpen(BagToSet(tk), tk)

\* C40: a page task that ends has closed the page it opened, whether it
\* committed or failed; a page is opened only by a job that passed the
\* admission check; the open pages are never more than threads.
C40_PagesClosed ==
  [][/\ \A t \in InFlight : Ends(t) => t.page = "closed"
     /\ OpenPages(tasks') > OpenPages(tasks) =>
          \E t \in InFlight : Navigates(t) /\ t = Started(t)
     /\ OpenPages(tasks') <= threads]_vars

\* A job that failed to navigate has closed its page and awaits _wait while
\* another job's page is open.
C40_Witness ==
  \E t, u \in InFlight :
    /\ t.pc = "wait"
    /\ t.err = "nav"
    /\ t.page = "closed"
    /\ u.page = "open"

\* C20: a response is attached to the oldest stored request with the same
\* (url, method) that has no response yet, and to nothing else.
C20_OldestUnmatched ==
  [][\A k \in BagToSet(awaiting), status \in Statuses :
       CaptureResponse(k, status) =>
         LET open == Matching(k) \ DOMAIN responses
         IN IF open = {}
            THEN responses' = responses
            ELSE responses' = [i \in (DOMAIN responses) \cup {Least(open)} |->
                                 IF i = Least(open) THEN status ELSE responses[i]]]_vars

\* the event loop runs every settled await
FairSpec == Spec /\ WF_vars(Next)

\* start() goes on once what it awaits has settled; the timer need not fire
FairSpecEngine ==
  SpecEngine /\ WF_vars(InitializeOk \/ InitializeFail \/ ContextOk \/ ContextFail
                         \/ Crawling \/ OutputsOk \/ OutputsFail)

====
